---- MODULE Spec2Model ----
(***************************************************************************)
(* Model of the ORKG extraction core: normalizer, rule set, statement      *)
(* classifier, neighbourhood crawler, leaf extractor, bundle assembler and *)
(* the statements client they fetch through.                               *)
(*                                                                         *)
(* Text.  A Python str is modelled as a sequence of tokens; the string it  *)
(* denotes is the tokens joined by single spaces.  A token is a word (no   *)
(* non-word character inside), the scheme marker "http://" / "https://",   *)
(* the token "n/a", or the whitespace token " ".  Under this reading a     *)
(* whole-word regex alternative is a phrase (a sequence of lower-case      *)
(* words) and re.search is a contiguous, case-insensitive phrase match.    *)
(* Python's None is NoneStr for id/class values and None for labels.       *)
(***************************************************************************)
EXTENDS Integers, Sequences, FiniteSets, TLC

VARIABLES
  pc,       \* control position of the running program
  graph,    \* subject id -> statements the API holds for it, in API order
  client,   \* the OrkgClient: its caches and the requests it has sent
  cls,      \* arguments and result of the classify_statement call
  crawl,    \* locals of the crawl_neighborhood invocation
  contrib,  \* extract_contribution_bundle: its arguments, then the bundle it returned
  ext,      \* locals of extract_template_agnostic_paper_bundle
  faults    \* the number of the HTTP request at which _get_json raises (0: never)

vars == <<pc, graph, client, cls, crawl, contrib, ext, faults>>

\* a local assigned once and read afterwards: `value` is computed once and
\* handed to the rest of the function body
Bind(value, Rest(_)) == CHOOSE result \in {Rest(x) : x \in {value}} : TRUE

NoneStr == "<None>"
None == <<"<None>">>
EmptyDict == <<>>

\* dict.get(k) with the None of the value's type
Get(d, k, none) == IF k \in DOMAIN d THEN d[k] ELSE none

\* `x or ""` on a label
OrEmpty(s) == IF s = None THEN <<>> ELSE s

\* mutant: only a missing id is refused (`if oid is None`)
Truthy_noneonly(id) == id # NoneStr

\* truthiness of an id (`if oid:`)
Truthy(id) == id # NoneStr /\ id # ""

\* ------------------------------------------------------------------ text

\* str.lower() on one token
LowerTok(t) ==
  CASE t = "HTTP://" -> "http://"
    [] t = "N/A" -> "n/a"
    [] t = "CNN" -> "cnn"
    [] t = "Method" -> "method"
    [] t = "Evidence" -> "evidence"
    [] t = "Name" -> "name"
    [] t = "P32" -> "p32"
    [] OTHER -> t

\* len() of one token, in characters
TokLen(t) ==
  CASE t \in {" "} -> 1
    [] t \in {"ok", "of"} -> 2
    [] t \in {"n/a", "N/A", "CNN", "cnn", "foo", "has", "see", "P32", "p32", "f1s"} -> 3
    [] t \in {"name", "Name", "tool", "data", "code", "list", "uses"} -> 4
    [] t \in {"method", "Method", "metric"} -> 6
    [] t \in {"http://", "HTTP://", "problem"} -> 7
    [] t \in {"https://", "evidence", "Evidence", "entities", "accuracy"} -> 8
    [] t \in {"evaluation"} -> 10

Lower(s) == [i \in DOMAIN s |-> LowerTok(s[i])]

RECURSIVE SumLen(_)
SumLen(s) == IF s = <<>> THEN 0 ELSE TokLen(Head(s)) + SumLen(Tail(s))

\* len(s): the tokens and the single spaces joining them
StrLen(s) == IF s = <<>> THEN 0 ELSE SumLen(s) + Len(s) - 1

\* str.strip(): leading and trailing whitespace removed
Strip(s) ==
  LET keep == {i \in DOMAIN s : s[i] # " "}
  IN IF keep = {} THEN <<>>
     ELSE LET a == CHOOSE i \in keep : \A j \in keep : i <= j
              b == CHOOSE i \in keep : \A j \in keep : j <= i
          IN SubSeq(s, a, b)

\* pattern.search(s) for a case-insensitive pattern given by its phrases
Search(phrases, s) ==
  \E ph \in phrases :
    \E i \in 1..(Len(s) - Len(ph) + 1) :
      \A k \in 1..Len(ph) : LowerTok(s[i + k - 1]) = ph[k]

\* pattern.match(s) for a case-insensitive ^(...)$ pattern
FullMatch(phrases, s) == Lower(s) \in phrases

\* --------------------------------------------------------------- normalize

URL_RE == {<<"http://">>, <<"https://">>}

NOISE_OBJECT_LABEL ==
  { <<"true">>, <<"false">>, <<"evaluation">>, <<"input", "data">>,
    <<"tool", "support">>, <<"evaluation", "method", "list">>, <<"list">>,
    <<"none">>, <<"null">>, <<"n/a">> }

NOISE_CONTAINING_ANYWHERE ==
  { <<"list", "of", "entities">>, <<"evaluation", "method", "entity">> }

NOISE_CONTAINING_WHOLE ==
  { <<"entity">>, <<"property">>, <<"sub-property">>, <<"properties">> }

looks_like_url(s) ==
  IF s = None \/ s = <<>> THEN FALSE ELSE Search(URL_RE, s)

is_noise_value(v) ==
  IF v = None \/ v = <<>> THEN TRUE
  ELSE LET v2 == Strip(v)
       IN IF StrLen(v2) <= 2 THEN TRUE
          ELSE IF FullMatch(NOISE_OBJECT_LABEL, v2) THEN TRUE
          ELSE IF Search(NOISE_CONTAINING_ANYWHERE, v2)
                  \/ FullMatch(NOISE_CONTAINING_WHOLE, v2) THEN TRUE
          ELSE FALSE

\* ------------------------------------------------------------------- rules

ExtractionRules ==
  [ research_problem_classes |-> {"ResearchProblem"},
    evidence_label |-> {<<"evidence">>, <<"evaluation">>, <<"validation">>},
    PROBLEM |-> { <<"problem">>, <<"goal">>, <<"aim">>, <<"challenge">>,
                  <<"addresses">>, <<"research", "question">>, <<"abstract">>,
                  <<"description">>, <<"summary">> },
    DATA |-> { <<"dataset">>, <<"data">>, <<"corpus">>, <<"benchmark">> },
    EVALUATION |-> { <<"evaluat">>, <<"validat">>, <<"metric">>, <<"measure">>,
                     <<"case", "study">>, <<"experiment">>, <<"user", "study">>,
                     <<"property">>, <<"sub-property">>, <<"guideline">>,
                     <<"threat", "to", "validity">> },
    METHOD |-> { <<"method">>, <<"approach">>, <<"model">>, <<"algorithm">>,
                 <<"architecture">>, <<"pipeline">>, <<"framework">>,
                 <<"embedding">>, <<"reference", "architecture">>,
                 <<"research", "object">> },
    ARTIFACT |-> { <<"url">>, <<"code">>, <<"repo">>, <<"implementation">>,
                   <<"demo">>, <<"video">>, <<"artifact">>, <<"package">>,
                   <<"replication">> },
    TOOL |-> { <<"tool", "support">>, <<"tool">>, <<"replication", "package">>,
               <<"replication">>, <<"available">>, <<"used">> } ]

\* ---------------------------------------------------------------- classify

Tags == {"problem", "method", "data", "evaluation", "artifact", "other"}

\* `pred.get("label") or pred.get("id") or ""`
PredLabel(pred) ==
  LET lbl == Get(pred, "label", None)
      id == Get(pred, "id", NoneStr)
  IN IF lbl # None /\ lbl # <<>> THEN lbl
     ELSE IF Truthy(id) THEN <<id>>
     ELSE <<>>

\* mutant: data cues are tested before tool cues
EvidenceRouting_datafirst(rules, p_lbl, o_lbl) ==
  IF Search(rules.DATA, p_lbl) \/ Search(rules.DATA, o_lbl) THEN "data"
  ELSE IF Search(rules.TOOL, p_lbl) \/ Search(rules.TOOL, o_lbl) THEN "artifact"
  ELSE IF Search(rules.ARTIFACT, p_lbl) \/ looks_like_url(o_lbl) THEN "artifact"
  ELSE "evaluation"

\* mutant: the evidence-tab branch tests method cues before its default
EvidenceRouting_methodcue(rules, p_lbl, o_lbl) ==
  IF Search(rules.TOOL, p_lbl) \/ Search(rules.TOOL, o_lbl) THEN "artifact"
  ELSE IF Search(rules.DATA, p_lbl) \/ Search(rules.DATA, o_lbl) THEN "data"
  ELSE IF Search(rules.ARTIFACT, p_lbl) \/ looks_like_url(o_lbl) THEN "artifact"
  ELSE IF Search(rules.METHOD, p_lbl) \/ Search(rules.METHOD, o_lbl) THEN "method"
  ELSE "evaluation"

\* classify_statement, the evidence-tab branch
EvidenceRouting(rules, p_lbl, o_lbl) ==
  IF Search(rules.TOOL, p_lbl) \/ Search(rules.TOOL, o_lbl) THEN "artifact"
  ELSE IF Search(rules.DATA, p_lbl) \/ Search(rules.DATA, o_lbl) THEN "data"
  ELSE IF Search(rules.ARTIFACT, p_lbl) \/ looks_like_url(o_lbl) THEN "artifact"
  ELSE "evaluation"

\* mutant: the final `return "other"` is missing (the function returns None)
NormalRouting_nodefault(rules, p_lbl, o_lbl) ==
  IF Search(rules.PROBLEM, p_lbl) \/ Search(rules.PROBLEM, o_lbl) THEN "problem"
  ELSE IF Search(rules.TOOL, p_lbl) \/ Search(rules.TOOL, o_lbl) THEN "artifact"
  ELSE IF Search(rules.DATA, p_lbl) \/ Search(rules.DATA, o_lbl) THEN "data"
  ELSE IF Search(rules.EVALUATION, p_lbl) \/ Search(rules.EVALUATION, o_lbl) THEN "evaluation"
  ELSE IF Search(rules.ARTIFACT, p_lbl) \/ looks_like_url(o_lbl) THEN "artifact"
  ELSE IF Search(rules.METHOD, p_lbl) \/ Search(rules.METHOD, o_lbl) THEN "method"
  ELSE NoneStr

\* mutant: method cues are tested before evaluation cues
NormalRouting_methodfirst(rules, p_lbl, o_lbl) ==
  IF Search(rules.PROBLEM, p_lbl) \/ Search(rules.PROBLEM, o_lbl) THEN "problem"
  ELSE IF Search(rules.TOOL, p_lbl) \/ Search(rules.TOOL, o_lbl) THEN "artifact"
  ELSE IF Search(rules.DATA, p_lbl) \/ Search(rules.DATA, o_lbl) THEN "data"
  ELSE IF Search(rules.METHOD, p_lbl) \/ Search(rules.METHOD, o_lbl) THEN "method"
  ELSE IF Search(rules.EVALUATION, p_lbl) \/ Search(rules.EVALUATION, o_lbl) THEN "evaluation"
  ELSE IF Search(rules.ARTIFACT, p_lbl) \/ looks_like_url(o_lbl) THEN "artifact"
  ELSE "other"

\* classify_statement, the normal routing (order matters)
NormalRouting(rules, p_lbl, o_lbl) ==
  IF Search(rules.PROBLEM, p_lbl) \/ Search(rules.PROBLEM, o_lbl) THEN "problem"
  ELSE IF Search(rules.TOOL, p_lbl) \/ Search(rules.TOOL, o_lbl) THEN "artifact"
  ELSE IF Search(rules.DATA, p_lbl) \/ Search(rules.DATA, o_lbl) THEN "data"
  ELSE IF Search(rules.EVALUATION, p_lbl) \/ Search(rules.EVALUATION, o_lbl) THEN "evaluation"
  ELSE IF Search(rules.ARTIFACT, p_lbl) \/ looks_like_url(o_lbl) THEN "artifact"
  ELSE IF Search(rules.METHOD, p_lbl) \/ Search(rules.METHOD, o_lbl) THEN "method"
  ELSE "other"

\* mutant: the evidence-tab branch is taken before the class and URL rules
classify_statement_evidencefirst(st, rules, contribution_label) ==
  LET pred == Get(st, "predicate", EmptyDict)
      obj == Get(st, "object", EmptyDict)
      p_lbl == Lower(PredLabel(pred))
      o_lbl == Lower(OrEmpty(Get(obj, "label", None)))
      o_cls == Get(obj, "_class", NoneStr)
  IN IF Search(rules.evidence_label, contribution_label)
       THEN EvidenceRouting(rules, p_lbl, o_lbl)
     ELSE IF o_cls \in rules.research_problem_classes THEN "problem"
     ELSE IF o_cls = "literal" /\ looks_like_url(o_lbl) THEN "artifact"
     ELSE NormalRouting(rules, p_lbl, o_lbl)

classify_statement(st, rules, contribution_label) ==
  LET pred == Get(st, "predicate", EmptyDict)
      obj == Get(st, "object", EmptyDict)
      p_lbl == Lower(PredLabel(pred))
      o_lbl == Lower(OrEmpty(Get(obj, "label", None)))
      o_cls == Get(obj, "_class", NoneStr)
  IN IF o_cls \in rules.research_problem_classes THEN "problem"
     ELSE IF o_cls = "literal" /\ looks_like_url(o_lbl) THEN "artifact"
     ELSE IF Search(rules.evidence_label, contribution_label)
       THEN EvidenceRouting(rules, p_lbl, o_lbl)
     ELSE NormalRouting(rules, p_lbl, o_lbl)

\* ------------------------------------------------------------------ client

Nodes == {"R1", "R2", "R3"}

NoGraph == [n \in Nodes |-> <<>>]

\* the statements the API holds for a subject (none for an unknown subject)
StatementsOf(g, sid) == IF sid \in DOMAIN g THEN g[sid] ELSE <<>>

Min(a, b) == IF a <= b THEN a ELSE b

\* the API's answer to GET /statements?subject_id=&page=&size=
ApiStatementsPage(g, subject_id, page, size) ==
  LET all == StatementsOf(g, subject_id)
      n == Len(all)
      content == SubSeq(all, page * size + 1, Min((page + 1) * size, n))
  IN IF "omitTotalPages" \in DOMAIN g
     THEN [content |-> content]
     ELSE [content |-> content, totalPages |-> (n + size - 1) \div size]

\* OrkgClient.__post_init__: both caches empty (requests is the log of GETs sent)
\* (raised is the exception propagating out of a client call, if any)
NewClient ==
  [statements_cache |-> <<>>, paper_cache |-> <<>>, requests |-> <<>>, raised |-> NoneStr]

\* an exception is propagating: no later statement of the caller runs
Raised(cl) == cl.raised # NoneStr

\* OrkgClient._get_json gives up on the request that is sent next
GetJsonRaises(cl) == Len(cl.requests) + 1 = faults

\* mutant: a page is cached before it is filled
get_statements_page_badcache(cl, g, subject_id, page, size) ==
  LET key == <<subject_id, page, size>>
  IN IF key \in DOMAIN cl.statements_cache
     THEN [data |-> cl.statements_cache[key], client |-> cl]
     ELSE [ data |-> ApiStatementsPage(g, subject_id, page, size),
            client |-> [cl EXCEPT
              !.statements_cache = (key :> EmptyDict) @@ @,
              !.requests = Append(@, [url |-> "statements", key |-> key])] ]

\* OrkgClient.get_statements_page: [data, client]
get_statements_page(cl, g, subject_id, page, size) ==
  LET key == <<subject_id, page, size>>
  IN IF Raised(cl) THEN [data |-> EmptyDict, client |-> cl]
     ELSE IF key \in DOMAIN cl.statements_cache
     THEN [data |-> cl.statements_cache[key], client |-> cl]
     ELSE IF GetJsonRaises(cl)
     THEN [ data |-> EmptyDict,
            client |-> [cl EXCEPT
              !.requests = Append(@, [url |-> "statements", key |-> key]),
              !.raised = "HTTPError"] ]
     ELSE LET data == ApiStatementsPage(g, subject_id, page, size)
          IN [ data |-> data,
               client |-> [cl EXCEPT
                 !.statements_cache = (key :> data) @@ @,
                 !.requests = Append(@, [url |-> "statements", key |-> key])] ]

\* mutant: the answer is returned without being stored
get_paper_nocache(cl, api_paper, paper_id) ==
  IF paper_id \in DOMAIN cl.paper_cache
  THEN [data |-> cl.paper_cache[paper_id], client |-> cl]
  ELSE IF GetJsonRaises(cl)
  THEN [ data |-> EmptyDict,
         client |-> [cl EXCEPT
           !.requests = Append(@, [url |-> "papers", key |-> <<paper_id>>]),
           !.raised = "HTTPError"] ]
  ELSE [ data |-> api_paper,
         client |-> [cl EXCEPT
           !.requests = Append(@, [url |-> "papers", key |-> <<paper_id>>])] ]

\* OrkgClient.get_paper, the API answering `api_paper`: [data, client]
get_paper(cl, api_paper, paper_id) ==
  IF paper_id \in DOMAIN cl.paper_cache
  THEN [data |-> cl.paper_cache[paper_id], client |-> cl]
  ELSE IF GetJsonRaises(cl)
  THEN [ data |-> EmptyDict,
         client |-> [cl EXCEPT
           !.requests = Append(@, [url |-> "papers", key |-> <<paper_id>>]),
           !.raised = "HTTPError"] ]
  ELSE [ data |-> api_paper,
         client |-> [cl EXCEPT
           !.paper_cache = (paper_id :> api_paper) @@ @,
           !.requests = Append(@, [url |-> "papers", key |-> <<paper_id>>])] ]

MAX_PAGES == 200

\* the while loop of OrkgClient.get_all_statements from `page` on: [out, client]
RECURSIVE AllStatementsFrom(_, _, _, _, _, _, _)
AllStatementsFrom(cl, g, subject_id, page_size, max_pages, page, out) ==
  IF ~(page < max_pages) THEN [out |-> out, client |-> cl]
  ELSE LET r == get_statements_page(cl, g, subject_id, page, page_size)
           chunk == Get(r.data, "content", <<>>)
           total_pages == Get(r.data, "totalPages", -1)
       IN IF chunk = <<>> THEN [out |-> out, client |-> r.client]
          ELSE IF "totalPages" \in DOMAIN r.data /\ page >= total_pages - 1
            THEN [out |-> out \o chunk, client |-> r.client]
          ELSE AllStatementsFrom(r.client, g, subject_id, page_size, max_pages,
                                 page + 1, out \o chunk)

\* mutant: the pagination loop catches the error and returns what it has
get_all_statements_swallow(cl, g, subject_id, page_size, max_pages) ==
  Bind(AllStatementsFrom(cl, g, subject_id, page_size, max_pages, 0, <<>>),
       LAMBDA r : [out |-> r.out, client |-> [r.client EXCEPT !.raised = NoneStr]])

\* OrkgClient.get_all_statements: [out, client]
get_all_statements(cl, g, subject_id, page_size, max_pages) ==
  AllStatementsFrom(cl, g, subject_id, page_size, max_pages, 0, <<>>)

\* ------------------------------------------------------------------- crawl

DEFAULT_PAGE_SIZE == 200

\* mutant: the head is read but never removed
PopLeft_peek(queue) == [item |-> Head(queue), rest |-> queue]

\* deque.popleft()
PopLeft(queue) == [item |-> Head(queue), rest |-> Tail(queue)]

RECURSIVE CrawlEnqueue(_, _, _, _)
\* the queue entries the for loop of crawl_neighborhood appends for `stmts`
CrawlEnqueue(stmts, depth, max_depth, follow_resources) ==
  IF stmts = <<>> THEN <<>>
  ELSE LET obj == Get(Head(stmts), "object", EmptyDict)
           oid == Get(obj, "id", NoneStr)
           rest == CrawlEnqueue(Tail(stmts), depth, max_depth, follow_resources)
       IN IF follow_resources /\ Get(obj, "_class", NoneStr) = "resource"
             /\ depth < max_depth /\ Truthy(oid)
          THEN <<<<oid, depth + 1>>>> \o rest
          ELSE rest

\* the locals of crawl_neighborhood on entry (fetched logs its get_all_statements calls)
CrawlStart(root_id, max_depth, page_size) ==
  [ root_id |-> root_id, max_depth |-> max_depth, follow_resources |-> TRUE,
    page_size |-> page_size,
    queue |-> <<<<root_id, 0>>>>, seen |-> {}, statements |-> <<>>,
    fetched |-> <<>> ]

NoCrawl == [root_id |-> NoneStr]

\* a function that has not been called
NoCall == [tag |-> NoneStr]

\* the visiting branch of one loop iteration (shared by the mutants below)
CrawlVisit(c, cl, g, p) ==
  LET sid == p.item[1]
      depth == p.item[2]
      r == get_all_statements(cl, g, sid, c.page_size, MAX_PAGES)
  IN [ crawl |-> [c EXCEPT
         !.queue = p.rest \o CrawlEnqueue(r.out, depth, c.max_depth,
                                          c.follow_resources),
         !.seen = @ \cup {sid},
         !.statements = @ \o r.out,
         !.fetched = Append(@, <<sid, depth>>)],
       client |-> r.client ]

\* mutant: the seen-set is not consulted
CrawlIterate_noseen(c, cl, g) ==
  LET p == PopLeft(c.queue)
  IN IF p.item[2] > c.max_depth
     THEN [crawl |-> [c EXCEPT !.queue = p.rest], client |-> cl]
     ELSE CrawlVisit(c, cl, g, p)

\* mutant: an entry at depth max_depth is skipped too
CrawlIterate_shallow(c, cl, g) ==
  LET p == PopLeft(c.queue)
  IN IF p.item[1] \in c.seen \/ p.item[2] >= c.max_depth
     THEN [crawl |-> [c EXCEPT !.queue = p.rest], client |-> cl]
     ELSE CrawlVisit(c, cl, g, p)

\* one iteration of the while loop of crawl_neighborhood: [crawl, client]
CrawlIterate(c, cl, g) ==
  LET p == PopLeft(c.queue)
      sid == p.item[1]
      depth == p.item[2]
  IN IF sid \in c.seen \/ depth > c.max_depth
     THEN [crawl |-> [c EXCEPT !.queue = p.rest], client |-> cl]
     ELSE CrawlVisit(c, cl, g, p)


\* ------------------------------------------------------------------ leaves

NAME_PRED == "name"

\* mutant: no predicate counts as a name predicate
ContainsName_never(p_lbl) == FALSE

\* `NAME_PRED in p_lbl`: some token of the lower-cased label contains "name"
ContainsName(p_lbl) == \E i \in DOMAIN p_lbl : p_lbl[i] \in {"name", "filename"}

Range(s) == {s[i] : i \in DOMAIN s}

\* `for v in values: if v not in seen: out.append(v); seen.add(v)`, seen = set(out)
RECURSIVE OrderedUnique(_, _)
OrderedUnique(values, out) ==
  IF values = <<>> THEN out
  ELSE IF Head(values) \in Range(out) THEN OrderedUnique(Tail(values), out)
  ELSE OrderedUnique(Tail(values), Append(out, Head(values)))

\* the values the for loop of extract_semantic_leaves appends for `stmts`
RECURSIVE LeafValues(_)
LeafValues(stmts) ==
  IF stmts = <<>> THEN <<>>
  ELSE LET st == Head(stmts)
           pred == Get(st, "predicate", EmptyDict)
           obj == Get(st, "object", EmptyDict)
           p_lbl == Lower(PredLabel(pred))
           o_cls == Get(obj, "_class", NoneStr)
           o_lbl == Strip(OrEmpty(Get(obj, "label", None)))
           rest == LeafValues(Tail(stmts))
       IN IF o_cls = "literal"
          THEN IF looks_like_url(o_lbl) THEN <<o_lbl>> \o rest
               ELSE IF ContainsName(p_lbl)
                 THEN IF ~is_noise_value(o_lbl) THEN <<o_lbl>> \o rest ELSE rest
               ELSE IF o_lbl # <<>> /\ ~is_noise_value(o_lbl) /\ StrLen(o_lbl) >= 4
                 THEN <<o_lbl>> \o rest
               ELSE rest
          ELSE rest

\* the queue entries the for loop of extract_semantic_leaves appends for `stmts`
RECURSIVE LeafEnqueue(_, _)
LeafEnqueue(stmts, depth) ==
  IF stmts = <<>> THEN <<>>
  ELSE LET obj == Get(Head(stmts), "object", EmptyDict)
           oid == Get(obj, "id", NoneStr)
           rest == LeafEnqueue(Tail(stmts), depth)
       IN IF Get(obj, "_class", NoneStr) = "resource" /\ Truthy(oid)
          THEN <<<<oid, depth + 1>>>> \o rest
          ELSE rest

\* the locals of extract_semantic_leaves on entry
LeavesStart(start_id, max_depth, max_nodes) ==
  [ start_id |-> start_id, max_depth |-> max_depth, max_nodes |-> max_nodes,
    values |-> <<>>, queue |-> <<<<start_id, 0>>>>, seen |-> {}, fetched |-> <<>> ]

\* mutant: the depth of a queue entry is not compared with max_depth
LeavesIterate_nodepth(l, cl, g) ==
  LET p == PopLeft(l.queue)
      sid == p.item[1]
      depth == p.item[2]
  IN IF sid \in l.seen
     THEN [leaves |-> [l EXCEPT !.queue = p.rest], client |-> cl]
     ELSE LET r == get_all_statements(cl, g, sid, DEFAULT_PAGE_SIZE, MAX_PAGES)
          IN [ leaves |-> [l EXCEPT
                 !.queue = p.rest \o LeafEnqueue(r.out, depth),
                 !.seen = @ \cup {sid},
                 !.values = @ \o LeafValues(r.out),
                 !.fetched = Append(@, <<sid, depth>>)],
               client |-> r.client ]

\* one iteration of the while loop of extract_semantic_leaves: [leaves, client]
LeavesIterate(l, cl, g) ==
  LET p == PopLeft(l.queue)
      sid == p.item[1]
      depth == p.item[2]
  IN IF sid \in l.seen \/ depth > l.max_depth
     THEN [leaves |-> [l EXCEPT !.queue = p.rest], client |-> cl]
     ELSE LET r == get_all_statements(cl, g, sid, DEFAULT_PAGE_SIZE, MAX_PAGES)
          IN [ leaves |-> [l EXCEPT
                 !.queue = p.rest \o LeafEnqueue(r.out, depth),
                 !.seen = @ \cup {sid},
                 !.values = @ \o LeafValues(r.out),
                 !.fetched = Append(@, <<sid, depth>>)],
               client |-> r.client ]

\* `while queue and len(seen) < max_nodes`, run to its end: [leaves, client]
RECURSIVE LeavesLoop(_, _, _)
LeavesLoop(l, cl, g) ==
  IF l.queue # <<>> /\ Cardinality(l.seen) < l.max_nodes
  THEN Bind(LeavesIterate(l, cl, g), LAMBDA r : LeavesLoop(r.leaves, r.client, g))
  ELSE [leaves |-> l, client |-> cl]

\* extract_semantic_leaves: [out, client]
extract_semantic_leaves(cl, g, start_id, max_depth, max_nodes) ==
  Bind(LeavesLoop(LeavesStart(start_id, max_depth, max_nodes), cl, g),
       LAMBDA r : [out |-> OrderedUnique(r.leaves.values, <<>>), client |-> r.client])

\* ------------------------------------------------------------------ bundle

\* core/settings.py defaults
settings ==
  [ CRAWL_MAX_DEPTH |-> 4, STATEMENTS_PAGE_SIZE |-> 200,
    LEAVES_MAX_DEPTH |-> 6, LEAVES_MAX_NODES |-> 400 ]

_normalize_statement(st) ==
  LET subj == Get(st, "subject", EmptyDict)
      pred == Get(st, "predicate", EmptyDict)
      obj == Get(st, "object", EmptyDict)
  IN [ subject_id |-> Get(subj, "id", NoneStr),
       predicate_label |-> PredLabel(pred),
       predicate_id |-> Get(pred, "id", NoneStr),
       object |-> [ id |-> Get(obj, "id", NoneStr),
                    label |-> Get(obj, "label", None),
                    class |-> Get(obj, "_class", NoneStr) ] ]

\* mutant: `else:` in place of `elif ocls == "literal":`
RECURSIVE CompactValues_anyclass(_, _, _)
CompactValues_anyclass(cl, g, items) ==
  IF items = <<>> THEN [values |-> <<>>, client |-> cl]
  ELSE LET obj == Head(items).object
           ocls == obj.class
           oid == obj.id
           olbl == Strip(OrEmpty(obj.label))
       IN IF ocls = "resource" /\ Truthy(oid)
          THEN Bind(extract_semantic_leaves(cl, g, oid, settings.LEAVES_MAX_DEPTH,
                                            settings.LEAVES_MAX_NODES), LAMBDA lv :
               Bind(CompactValues_anyclass(lv.client, g, Tail(items)), LAMBDA rest :
                 [values |-> lv.out \o rest.values, client |-> rest.client]))
          ELSE Bind(CompactValues_anyclass(cl, g, Tail(items)), LAMBDA rest :
                 IF olbl # <<>> /\ ~is_noise_value(olbl)
                 THEN [values |-> <<olbl>> \o rest.values, client |-> rest.client]
                 ELSE rest)

\* the first loop of _compact_bucket over `items`: [values, client]
RECURSIVE CompactValues(_, _, _)
CompactValues(cl, g, items) ==
  IF items = <<>> THEN [values |-> <<>>, client |-> cl]
  ELSE LET obj == Head(items).object
           ocls == obj.class
           oid == obj.id
           olbl == Strip(OrEmpty(obj.label))
       IN IF ocls = "resource" /\ Truthy(oid)
          THEN Bind(extract_semantic_leaves(cl, g, oid, settings.LEAVES_MAX_DEPTH,
                                            settings.LEAVES_MAX_NODES), LAMBDA lv :
               Bind(CompactValues(lv.client, g, Tail(items)), LAMBDA rest :
                 [values |-> lv.out \o rest.values, client |-> rest.client]))
          ELSE Bind(CompactValues(cl, g, Tail(items)), LAMBDA rest :
                 IF ocls = "literal" /\ olbl # <<>> /\ ~is_noise_value(olbl)
                 THEN [values |-> <<olbl>> \o rest.values, client |-> rest.client]
                 ELSE rest)

\* mutant: the bucket's values are returned without the de-duplication loop
CompactUnique_none(values) == values

\* _compact_bucket, the de-duplication loop
CompactUnique(values) == OrderedUnique(values, <<>>)

\* mutant: an empty result is returned as None (`return out or None`)
_compact_bucket_none(cl, g, items) ==
  Bind(CompactValues(cl, g, items),
       LAMBDA r : [out |-> IF r.values = <<>> THEN None ELSE CompactUnique(r.values),
                   client |-> r.client])

\* _compact_bucket: [out, client]
_compact_bucket(cl, g, items) ==
  Bind(CompactValues(cl, g, items),
       LAMBDA r : [out |-> CompactUnique(r.values), client |-> r.client])

\* the classification loop of extract_contribution_bundle: tag -> normalized statements
RECURSIVE Bucketize(_, _, _, _)
Bucketize(stmts, rules, contribution_label, buckets) ==
  IF stmts = <<>> THEN buckets
  ELSE LET st == Head(stmts)
           bucket == classify_statement(st, rules, contribution_label)
           old == Get(buckets, bucket, <<>>)
       IN Bind((bucket :> Append(old, _normalize_statement(st))) @@ buckets,
               LAMBDA b : Bucketize(Tail(stmts), rules, contribution_label, b))

\* mutant: the method list is compacted from the unmatched statements too
BucketItems_withother(buckets, tag) ==
  Get(buckets, tag, <<>>)
    \o (IF tag = "method" THEN Get(buckets, "other", <<>>) ELSE <<>>)

\* `buckets.get(tag, [])`
BucketItems(buckets, tag) == Get(buckets, tag, <<>>)

\* mutant: the leakage guard is missing
LeakageGuard_none(methods, evaluation) == methods

\* `[m for m in methods if m not in ev]`, ev = set(evaluation)
LeakageGuard(methods, evaluation) ==
  LET Keep(m) == m \notin Range(evaluation) IN SelectSeq(methods, Keep)

\* extract_contribution_bundle after the crawl has returned `stmts`: [bundle, client]
AssembleContribution(cl, g, contribution_id, contribution_label, rules, stmts) ==
  Bind(Bucketize(stmts, rules, contribution_label, <<>>), LAMBDA buckets :
  Bind(_compact_bucket(cl, g, BucketItems(buckets, "problem")), LAMBDA problems :
  Bind(_compact_bucket(problems.client, g, BucketItems(buckets, "method")), LAMBDA methods :
  Bind(_compact_bucket(methods.client, g, BucketItems(buckets, "data")), LAMBDA data :
  Bind(_compact_bucket(data.client, g, BucketItems(buckets, "evaluation")), LAMBDA evaluation :
  Bind(_compact_bucket(evaluation.client, g, BucketItems(buckets, "artifact")), LAMBDA artifacts :
     [ bundle |->
         [ id |-> contribution_id,
           label |-> contribution_label,
           compact |-> [ problems |-> problems.out,
                         methods |-> LeakageGuard(methods.out, evaluation.out),
                         data |-> data.out,
                         evaluation |-> evaluation.out,
                         artifacts |-> artifacts.out ],
           buckets |-> buckets ],
       client |-> artifacts.client ]))))))

CompactKeys == <<"problems", "methods", "data", "evaluation", "artifacts">>

EmptyCompact ==
  [problems |-> <<>>, methods |-> <<>>, data |-> <<>>, evaluation |-> <<>>, artifacts |-> <<>>]

\* mutant: add_unique starts from an empty seen-set on every call
add_unique_forgetful(merged_key, vals) == merged_key \o OrderedUnique(vals, <<>>)

\* add_unique of merge_paper_core_from_contributions: merged[key] afterwards
add_unique(merged_key, vals) == OrderedUnique(vals, merged_key)

\* the loop `for c in contribs` of merge_paper_core_from_contributions
RECURSIVE MergeLoop(_, _)
MergeLoop(contribs, merged) ==
  IF contribs = <<>> THEN merged
  ELSE LET comp == Get(Head(contribs), "compact", EmptyDict)
       IN Bind([k \in DOMAIN merged |-> add_unique(merged[k], Get(comp, k, <<>>))],
               LAMBDA m : MergeLoop(Tail(contribs), m))

\* the leakage guard of merge_paper_core_from_contributions
PaperLeakageGuard(methods, evaluation) ==
  LET Keep(m) == m \notin Range(evaluation) IN SelectSeq(methods, Keep)

merge_paper_core_from_contributions(contribs) ==
  Bind(MergeLoop(contribs, EmptyCompact), LAMBDA merged :
    [merged EXCEPT !.methods = PaperLeakageGuard(merged.methods, merged.evaluation)])

\* --------------------------------------------------------- crawler harness

MaxStmts == 4
MaxStmtsFair == 3
MaxDepth == 2

HasPred == [id |-> "P32", label |-> <<"has">>]

\* objects a statement can point to: each node as a resource, a resource
\* without id, and a literal that carries a node's id
ResourcePool ==
  {[predicate |-> HasPred, object |-> [id |-> n, label |-> <<"foo">>, _class |-> "resource"]]
     : n \in Nodes}

CrawlPool ==
  ResourcePool
  \cup {[predicate |-> HasPred, object |-> [label |-> <<"foo">>, _class |-> "resource"]],
        [predicate |-> HasPred, object |-> [id |-> "R2", label |-> <<"foo">>, _class |-> "literal"]]}

RECURSIVE SumOver(_, _)
SumOver(g, ns) ==
  IF ns = {} THEN 0
  ELSE LET n == CHOOSE x \in ns : TRUE IN Len(g[n]) + SumOver(g, ns \ {n})

TotalStatements(g) == SumOver(g, DOMAIN g)

InitCrawl ==
  /\ pc = "setup"
  /\ graph = NoGraph
  /\ client = NewClient
  /\ cls = NoCall
  /\ crawl = NoCrawl
  /\ contrib = NoCall
  /\ ext = NoCall
  /\ faults = 0

\* the graph is edited (a statement is added to a subject) before the crawl runs
AddStatement(n, st, limit) ==
  /\ pc = "setup"
  /\ TotalStatements(graph) < limit
  /\ graph' = [graph EXCEPT ![n] = Append(@, st)]
  /\ UNCHANGED <<pc, client, cls, crawl, contrib, ext, faults>>

\* crawl_neighborhood(client, "R1", max_depth=d) is called
CrawlCall(d) ==
  /\ pc = "setup"
  /\ pc' = "crawl"
  /\ crawl' = CrawlStart("R1", d, DEFAULT_PAGE_SIZE)
  /\ UNCHANGED <<graph, client, cls, contrib, ext, faults>>

\* one turn of `while queue:`
CrawlStep ==
  /\ pc = "crawl"
  /\ crawl.queue # <<>>
  /\ \E r \in {CrawlIterate(crawl, client, graph)} :
       /\ client' = r.client
       /\ IF Raised(r.client)
          THEN pc' = "failed" /\ UNCHANGED crawl
          ELSE crawl' = r.crawl /\ UNCHANGED pc
  /\ UNCHANGED <<graph, cls, contrib, ext, faults>>

\* the queue is empty: `return statements`
CrawlReturn ==
  /\ pc = "crawl"
  /\ crawl.queue = <<>>
  /\ pc' = "crawled"
  /\ UNCHANGED <<graph, client, cls, crawl, contrib, ext, faults>>

CrawlRun == CrawlStep \/ CrawlReturn

NextCrawl ==
  \/ \E n \in Nodes, st \in CrawlPool : AddStatement(n, st, MaxStmts)
  \/ \E d \in 0..MaxDepth : CrawlCall(d)
  \/ CrawlStep
  \/ CrawlReturn

SpecCrawl == InitCrawl /\ [][NextCrawl]_vars

\* the subjects that carry statements in the termination check
FairSources == {"R1", "R2"}

\* the same crawl over graphs of resource edges only, for the termination check
NextCrawlFair ==
  \/ \E n \in FairSources, st \in ResourcePool : AddStatement(n, st, MaxStmtsFair)
  \/ \E d \in 0..MaxDepth : CrawlCall(d)
  \/ CrawlStep
  \/ CrawlReturn

\* the interpreter keeps running the loop until it returns
SpecCrawlFair == InitCrawl /\ [][NextCrawlFair]_vars /\ WF_vars(CrawlRun)


\* ----------------------------------------------------------- crawler claims

CrawlRunning == pc \in {"crawl", "crawled"}

FetchedIds == {crawl.fetched[k][1] : k \in DOMAIN crawl.fetched}

\* <<k, i>>: statement i of the k-th fetched node was followed into the queue
FollowedEdges ==
  {e \in UNION {{<<k, i>> : i \in DOMAIN StatementsOf(graph, crawl.fetched[k][1])}
                : k \in DOMAIN crawl.fetched} :
     LET obj == Get(StatementsOf(graph, crawl.fetched[e[1]][1])[e[2]], "object", EmptyDict)
     IN /\ Get(obj, "_class", NoneStr) = "resource"
        /\ Truthy(Get(obj, "id", NoneStr))
        /\ crawl.fetched[e[1]][2] < crawl.max_depth}

EdgeTarget(e) == StatementsOf(graph, crawl.fetched[e[1]][1])[e[2]].object.id

\* how often node n was put on the queue (the root once, on entry)
TimesEnqueued(n) ==
  Cardinality({e \in FollowedEdges : EdgeTarget(e) = n})
    + (IF n = crawl.root_id THEN 1 ELSE 0)

\* the depths node n was put on the queue with
DepthsEnqueued(n) ==
  {crawl.fetched[e[1]][2] + 1 : e \in {x \in FollowedEdges : EdgeTarget(x) = n}}
    \cup (IF n = crawl.root_id THEN {0} ELSE {})

\* C5: within one crawl_neighborhood invocation the statements of a node id
\* are fetched at most once, however often the node was enqueued.
C5_FetchedAtMostOnce ==
  CrawlRunning =>
    \A i, j \in DOMAIN crawl.fetched :
      i # j => crawl.fetched[i][1] # crawl.fetched[j][1]

\* a finished crawl of a graph with a cycle back to the root in which another
\* node was enqueued more than once
C5_Witness ==
  /\ pc = "crawled"
  /\ TimesEnqueued(crawl.root_id) >= 2
  /\ \E n \in Nodes \ {crawl.root_id} : TimesEnqueued(n) >= 2

\* C6: crawl_neighborhood terminates: once called, its queue becomes empty
\* and it returns, for every graph and every max_depth >= 0.
C6_CrawlTerminates == (pc = "crawl") ~> (pc = "crawled")

\* a crawl that returned on a graph with a cycle back to the root and a node
\* with several incoming edges
C6_Witness ==
  /\ pc = "crawled"
  /\ \E e \in FollowedEdges :
       EdgeTarget(e) = crawl.root_id /\ crawl.fetched[e[1]][1] # crawl.root_id
  /\ \E n \in Nodes \ {crawl.root_id} : TimesEnqueued(n) >= 2

\* resource successors of node n: objects of class resource with a non-empty id
ResourceSuccessors(g, n) ==
  {Get(Get(StatementsOf(g, n)[i], "object", EmptyDict), "id", NoneStr) :
     i \in {j \in DOMAIN StatementsOf(g, n) :
              LET obj == Get(StatementsOf(g, n)[j], "object", EmptyDict)
              IN Get(obj, "_class", NoneStr) = "resource"
                 /\ Truthy(Get(obj, "id", NoneStr))}}

\* nodes reachable from root by a path of at most d resource edges
RECURSIVE ReachableWithin(_, _, _)
ReachableWithin(g, root, d) ==
  IF d = 0 THEN {root}
  ELSE LET r == ReachableWithin(g, root, d - 1)
       IN r \cup UNION {ResourceSuccessors(g, n) : n \in r}

\* C7: when crawl_neighborhood(root, max_depth=d) returns, the fetched node
\* ids are exactly the nodes within d resource hops of the root.
C7_FetchedExactlyWithinDepth ==
  pc = "crawled" =>
    FetchedIds = ReachableWithin(graph, crawl.root_id, crawl.max_depth)

\* a finished crawl in which a node was enqueued at two different depths and
\* a resource edge leaving a node at depth max_depth was cut off
C7_Witness ==
  /\ pc = "crawled"
  /\ \E n \in Nodes : Cardinality(DepthsEnqueued(n)) >= 2
  /\ \E k \in DOMAIN crawl.fetched :
       /\ crawl.fetched[k][2] = crawl.max_depth
       /\ ResourceSuccessors(graph, crawl.fetched[k][1]) # {}
  /\ ReachableWithin(graph, crawl.root_id, crawl.max_depth) = Nodes


\* ------------------------------------------------- paper-level extraction

\* `authors.append(a.get("name") or a.get("label") or a.get("id"))`, then `if x`
RECURSIVE AuthorNames(_)
AuthorNames(authors) ==
  IF authors = <<>> THEN <<>>
  ELSE LET a == Head(authors)
           name == OrEmpty(Get(a, "name", None))
           label == OrEmpty(Get(a, "label", None))
           id == Get(a, "id", NoneStr)
           x == IF name # <<>> THEN name
                ELSE IF label # <<>> THEN label
                ELSE IF Truthy(id) THEN <<id>> ELSE <<>>
       IN IF x # <<>> THEN <<x>> \o AuthorNames(Tail(authors))
          ELSE AuthorNames(Tail(authors))

\* the bundle extract_template_agnostic_paper_bundle builds before its loop
NewBundle(paper, depth) ==
  [ paper |-> [ id |-> Get(paper, "id", NoneStr),
                title |-> Get(paper, "title", None),
                year |-> Get(paper, "year", NoneStr),
                doi |-> Get(paper, "doi", NoneStr),
                url |-> Get(paper, "url", NoneStr),
                authors |-> AuthorNames(Get(paper, "authors", <<>>)),
                research_fields |->
                  [i \in DOMAIN Get(paper, "research_fields", <<>>) |->
                     Get(paper.research_fields[i], "label", None)] ],
    paper_core |-> EmptyCompact,
    contributions |-> <<>>,
    extraction |->
      [ depth |-> depth, template_agnostic |-> TRUE,
        notes |-> << "No predicate IDs are used.",
                     "Paper core is derived by merging contribution-level facts (more reliable than paper node crawl).",
                     "Leaf extraction follows resource edges and collects Name literals." >> ] ]

DEFAULT_DEPTH == 4

\* mutant: the `not` of the filter is missing
SecondLeakageGuard_inverted(methods, evaluation) ==
  LET Keep(m) == m \in Range(evaluation) IN SelectSeq(methods, Keep)

\* the leakage guard extract_template_agnostic_paper_bundle re-applies
SecondLeakageGuard(methods, evaluation) ==
  LET Keep(m) == m \notin Range(evaluation) IN SelectSeq(methods, Keep)

\* ---------------------------------------------------------- paper harness

MaxFacts == 3

Pred(word) == [id |-> "P32", label |-> <<word>>]
Literal(label) == [id |-> "L1", label |-> label, _class |-> "literal"]

NoisyUrl == <<"http://", "list", "of", "entities">>

\* statements the graph can hold: a short literal, the same literal under an
\* evaluation and under a method predicate, a resource to expand, a URL literal,
\* a literal under a predicate without any cue
FactPool ==
  { [predicate |-> Pred("method"), object |-> Literal(<<"CNN">>)],
    [predicate |-> Pred("metric"), object |-> Literal(<<"accuracy">>)],
    [predicate |-> Pred("method"),
     object |-> [id |-> "R3", label |-> <<"foo">>, _class |-> "resource"]],
    [predicate |-> Pred("see"), object |-> Literal(NoisyUrl)],
    [predicate |-> Pred("see"), object |-> Literal(<<"entities">>)],
    [predicate |-> Pred("method"), object |-> Literal(<<"accuracy">>)] }

\* papers the API can answer with: three plain contributions; an evidence
\* contribution, an entry without id, one with an empty id and one without
\* label; the same contribution listed twice; no contributions
Papers ==
  { [ id |-> "P1", title |-> <<"foo">>,
      authors |-> <<[name |-> <<"foo">>], [id |-> "R9"]>>,
      contributions |-> << [id |-> "R1", label |-> <<"Contribution">>],
                           [id |-> "R2", label |-> <<"Contribution">>],
                           [id |-> "R3", label |-> <<"Contribution">>] >> ],
    [ id |-> "P1", title |-> <<"foo">>,
      contributions |-> << [id |-> "R1", label |-> <<"Evidence">>],
                           [label |-> <<"Contribution">>],
                           [id |-> "", label |-> <<"Contribution">>],
                           [id |-> "R2"] >> ],
    [ id |-> "P1", title |-> <<"foo">>,
      contributions |-> << [id |-> "R1", label |-> <<"Contribution">>],
                           [id |-> "R1", label |-> <<"Contribution">>] >> ],
    [ id |-> "P1", title |-> <<"foo">> ] }

Init ==
  /\ pc = "setup"
  /\ graph = NoGraph
  /\ client = NewClient
  /\ cls = NoCall
  /\ crawl = NoCrawl
  /\ contrib = NoCall
  /\ ext = NoCall
  /\ faults = 0

\* extract_template_agnostic_paper_bundle is called; get_paper answers `api_paper`
\* (log is what the call writes to a logger or to stdout: nothing in the source)
ExtractCall(api_paper, depth) ==
  /\ pc = "setup"
  /\ \E r \in {get_paper(client, api_paper, "P1")} :
       /\ client' = r.client
       /\ IF Raised(r.client)
          THEN pc' = "failed" /\ UNCHANGED ext
          ELSE /\ ext' = [ paper_id |-> "P1", depth |-> depth, rules |-> ExtractionRules,
                           paper |-> r.data, bundle |-> NewBundle(r.data, depth),
                           i |-> 1, log |-> <<>> ]
               /\ pc' = "contribs"
  /\ UNCHANGED <<graph, cls, crawl, contrib, faults>>

\* mutant: the contribution entries are walked from the last to the first
Contributions_reversed ==
  LET cs == Get(ext.paper, "contributions", <<>>)
  IN [i \in DOMAIN cs |-> cs[Len(cs) + 1 - i]]

Contributions == Get(ext.paper, "contributions", <<>>)

\* `if not cid: continue`
ContributionSkip ==
  /\ pc = "contribs"
  /\ ext.i <= Len(Contributions)
  /\ ~Truthy(Get(Contributions[ext.i], "id", NoneStr))
  /\ ext' = [ext EXCEPT !.i = @ + 1]
  /\ UNCHANGED <<pc, graph, client, cls, crawl, contrib, faults>>

\* extract_contribution_bundle is called and calls crawl_neighborhood
ContributionCall ==
  /\ pc = "contribs"
  /\ ext.i <= Len(Contributions)
  /\ LET c == Contributions[ext.i]
         cid == Get(c, "id", NoneStr)
         clabel == OrEmpty(Get(c, "label", None))
     IN /\ Truthy(cid)
        /\ contrib' = [contribution_id |-> cid, contribution_label |-> clabel,
                       rules |-> ext.rules]
        /\ crawl' = CrawlStart(cid, settings.CRAWL_MAX_DEPTH,
                               settings.STATEMENTS_PAGE_SIZE)
  /\ pc' = "crawl"
  /\ UNCHANGED <<graph, client, cls, ext, faults>>

\* extract_contribution_bundle: classification, compaction, leakage guard, return
ContributionReturn ==
  /\ pc = "crawled"
  /\ contrib # NoCall
  /\ \E r \in {AssembleContribution(client, graph, contrib.contribution_id,
                                      contrib.contribution_label, contrib.rules,
                                      crawl.statements)} :
       /\ client' = r.client
       /\ IF Raised(r.client)
          THEN pc' = "failed" /\ UNCHANGED contrib
          ELSE pc' = "returned" /\ contrib' = r.bundle
  /\ UNCHANGED <<graph, cls, crawl, ext, faults>>

\* the paper-level leakage pass on the returned bundle, and the append
ContributionAppend ==
  /\ pc = "returned"
  /\ LET guarded == [contrib EXCEPT !.compact.methods =
                       SecondLeakageGuard(contrib.compact.methods,
                                          contrib.compact.evaluation)]
     IN /\ contrib' = guarded
        /\ ext' = [ext EXCEPT !.bundle.contributions = Append(@, guarded),
                              !.i = @ + 1]
  /\ pc' = "contribs"
  /\ UNCHANGED <<graph, client, cls, crawl, faults>>

\* the loop is over: paper_core is merged and the bundle returned
ExtractReturn ==
  /\ pc = "contribs"
  /\ ext.i > Len(Contributions)
  /\ ext' = [ext EXCEPT !.bundle.paper_core =
               merge_paper_core_from_contributions(ext.bundle.contributions)]
  /\ pc' = "done"
  /\ UNCHANGED <<graph, client, cls, crawl, contrib, faults>>

Next ==
  \/ \E n \in Nodes, st \in FactPool : AddStatement(n, st, MaxFacts)
  \/ \E p \in Papers : ExtractCall(p, DEFAULT_DEPTH)
  \/ ContributionSkip
  \/ ContributionCall
  \/ CrawlStep
  \/ CrawlReturn
  \/ ContributionReturn
  \/ ContributionAppend
  \/ ExtractReturn

Spec == Init /\ [][Next]_vars

\* the same extraction called with an explicit depth argument, over graphs of
\* resource edges
NextDepth ==
  \/ \E n \in Nodes, st \in ResourcePool : AddStatement(n, st, MaxStmtsFair)
  \/ \E p \in Papers, d \in 0..MaxDepth : ExtractCall(p, d)
  \/ ContributionSkip
  \/ ContributionCall
  \/ CrawlStep
  \/ CrawlReturn
  \/ ContributionReturn
  \/ ContributionAppend
  \/ ExtractReturn

SpecDepth == Init /\ [][NextDepth]_vars

\* extract_paper_bundle (build_index.py) is called: a new client, the default
\* rules, get_paper
IndexExtractCall(api_paper) ==
  /\ pc = "setup"
  /\ \E r \in {get_paper(NewClient, api_paper, "P1")} :
       /\ client' = r.client
       /\ IF Raised(r.client)
          THEN pc' = "failed" /\ UNCHANGED ext
          ELSE /\ ext' = [ paper_id |-> "P1", rules |-> ExtractionRules,
                           paper |-> r.data,
                           bundle |-> [contributions |-> <<>>],
                           i |-> 1 ]
               /\ pc' = "contribs"
  /\ UNCHANGED <<graph, cls, crawl, contrib, faults>>

\* `contributions.append(extract_contribution_bundle(...))`
IndexAppend ==
  /\ pc = "returned"
  /\ ext' = [ext EXCEPT !.bundle.contributions = Append(@, contrib), !.i = @ + 1]
  /\ pc' = "contribs"
  /\ UNCHANGED <<graph, client, cls, crawl, contrib, faults>>

\* the loop is over: the dict extract_paper_bundle returns
IndexExtractReturn ==
  /\ pc = "contribs"
  /\ ext.i > Len(Contributions)
  /\ ext' = [ext EXCEPT !.bundle =
               [ paper |-> [ id |-> Get(ext.paper, "id", NoneStr),
                             title |-> Get(ext.paper, "title", None),
                             year |-> Get(ext.paper, "year", NoneStr),
                             doi |-> Get(ext.paper, "doi", NoneStr),
                             url |-> Get(ext.paper, "url", NoneStr) ],
                 contributions |-> ext.bundle.contributions ]]
  /\ pc' = "done"
  /\ UNCHANGED <<graph, client, cls, crawl, contrib, faults>>

\* the extraction the document and index builders run
NextIndex ==
  \/ \E n \in Nodes, st \in FactPool : AddStatement(n, st, MaxFacts)
  \/ \E p \in Papers : IndexExtractCall(p)
  \/ ContributionSkip
  \/ ContributionCall
  \/ CrawlStep
  \/ CrawlReturn
  \/ ContributionReturn
  \/ IndexAppend
  \/ IndexExtractReturn

SpecIndex == Init /\ [][NextIndex]_vars

\* `while queue:` of crawl_neighborhood, run to its end: [crawl, client]
RECURSIVE CrawlLoop(_, _, _)
CrawlLoop(c, cl, g) ==
  IF c.queue = <<>> THEN [crawl |-> c, client |-> cl]
  ELSE Bind(CrawlIterate(c, cl, g), LAMBDA r : CrawlLoop(r.crawl, r.client, g))

\* extract_contribution_bundle, from call to return: [bundle, client]
extract_contribution_bundle(cl, g, contribution_id, contribution_label, rules) ==
  Bind(CrawlLoop(CrawlStart(contribution_id, settings.CRAWL_MAX_DEPTH,
                            settings.STATEMENTS_PAGE_SIZE), cl, g),
       LAMBDA r : AssembleContribution(r.client, g, contribution_id, contribution_label,
                                       rules, r.crawl.statements))

\* ---------------------------------------------------- concurrent contributions

MaxConcStmts == 2

Workers == {1, 2}

\* resource edges and one literal under a method predicate
ConcPool ==
  ResourcePool
    \cup {[predicate |-> Pred("method"), object |-> Literal(<<"accuracy">>)]}

\* the contributions handed to the two workers: different ones, or the same one
ConcRoots == {<<"R1", "R2">>, <<"R1", "R1">>}

\* mutant: `seen` is one set shared by all invocations (a module-level set)
SeenBy_shared(crawls, w) == UNION {crawls[v].seen : v \in Workers}

\* the seen-set invocation w reads: its own local
SeenBy(crawls, w) == crawls[w].seen

\* the two workers call extract_contribution_bundle on the shared client
ConcStart(roots) ==
  /\ pc = "setup"
  /\ pc' = "workers"
  /\ crawl' = [w \in Workers |->
       [at |-> "crawl"]
         @@ CrawlStart(roots[w], settings.CRAWL_MAX_DEPTH, settings.STATEMENTS_PAGE_SIZE)]
  /\ contrib' = [w \in Workers |->
       [contribution_id |-> roots[w], contribution_label |-> <<"Contribution">>,
        rules |-> ExtractionRules]]
  /\ UNCHANGED <<graph, client, cls, ext, faults>>

\* what worker w's loop iteration sees: its locals, with the seen-set it reads
Locals(w) ==
  [k \in DOMAIN crawl[w] \ {"at"} |->
     IF k = "seen" THEN SeenBy(crawl, w) ELSE crawl[w][k]]

\* the statements page the head of worker w's queue needs is not in the cache
PageMissing(w) ==
  LET c == Locals(w)
      p == PopLeft(c.queue)
  IN /\ ~(p.item[1] \in c.seen \/ p.item[2] > c.max_depth)
     /\ <<p.item[1], 0, c.page_size>> \notin DOMAIN client.statements_cache

\* worker w runs one loop iteration without I/O: a skipped entry or a cached page
WorkerStep(w) ==
  /\ pc = "workers"
  /\ crawl[w].at = "crawl"
  /\ crawl[w].queue # <<>>
  /\ ~PageMissing(w)
  /\ \E r \in {CrawlIterate(Locals(w), client, graph)} :
       /\ crawl' = [crawl EXCEPT ![w] = [k \in DOMAIN crawl[w] |->
                      IF k = "at" THEN "crawl" ELSE r.crawl[k]]]
       /\ client' = r.client
  /\ UNCHANGED <<pc, graph, cls, contrib, ext, faults>>

\* worker w finds the page missing and sends the request (get_statements_page
\* up to _get_json)
WorkerRequest(w) ==
  /\ pc = "workers"
  /\ crawl[w].at = "crawl"
  /\ crawl[w].queue # <<>>
  /\ PageMissing(w)
  /\ crawl' = [crawl EXCEPT ![w].at = "fetch"]
  /\ client' = [client EXCEPT !.requests =
       Append(@, [url |-> "statements",
                  key |-> <<Head(crawl[w].queue)[1], 0, crawl[w].page_size>>])]
  /\ UNCHANGED <<pc, graph, cls, contrib, ext, faults>>

\* the response arrives: the page is stored in the cache and the iteration runs
WorkerResponse(w) ==
  /\ pc = "workers"
  /\ crawl[w].at = "fetch"
  /\ LET key == <<Head(crawl[w].queue)[1], 0, crawl[w].page_size>>
         stored == [client EXCEPT !.statements_cache =
                      (key :> ApiStatementsPage(graph, key[1], key[2], key[3])) @@ @]
     IN \E r \in {CrawlIterate(Locals(w), stored, graph)} :
          /\ crawl' = [crawl EXCEPT ![w] = [k \in DOMAIN crawl[w] |->
                         IF k = "at" THEN "crawl" ELSE r.crawl[k]]]
          /\ client' = r.client
  /\ UNCHANGED <<pc, graph, cls, contrib, ext, faults>>

\* worker w's crawl returns
WorkerCrawled(w) ==
  /\ pc = "workers"
  /\ crawl[w].at = "crawl"
  /\ crawl[w].queue = <<>>
  /\ crawl' = [crawl EXCEPT ![w].at = "crawled"]
  /\ UNCHANGED <<pc, graph, client, cls, contrib, ext, faults>>

\* worker w classifies, compacts and returns its bundle
WorkerReturn(w) ==
  /\ pc = "workers"
  /\ crawl[w].at = "crawled"
  /\ \E r \in {AssembleContribution(client, graph, contrib[w].contribution_id,
                                      contrib[w].contribution_label, contrib[w].rules,
                                      crawl[w].statements)} :
       /\ contrib' = [contrib EXCEPT ![w] = r.bundle]
       /\ client' = r.client
  /\ crawl' = [crawl EXCEPT ![w].at = "returned"]
  /\ UNCHANGED <<pc, graph, cls, ext, faults>>

NextConc ==
  \/ \E n \in Nodes, st \in ConcPool : AddStatement(n, st, MaxConcStmts)
  \/ \E roots \in ConcRoots : ConcStart(roots)
  \/ \E w \in Workers : WorkerStep(w)
  \/ \E w \in Workers : WorkerRequest(w)
  \/ \E w \in Workers : WorkerResponse(w)
  \/ \E w \in Workers : WorkerCrawled(w)
  \/ \E w \in Workers : WorkerReturn(w)

SpecConc == Init /\ [][NextConc]_vars

MaxFaultAt == 4

\* the same extraction against an API whose k-th request fails for good
InitFault ==
  /\ pc = "setup"
  /\ graph = NoGraph
  /\ client = NewClient
  /\ cls = NoCall
  /\ crawl = NoCrawl
  /\ contrib = NoCall
  /\ ext = NoCall
  /\ faults \in 1..MaxFaultAt

NextFault ==
  \/ \E n \in Nodes, st \in ResourcePool : AddStatement(n, st, MaxStmtsFair)
  \/ \E p \in Papers : ExtractCall(p, DEFAULT_DEPTH)
  \/ ContributionSkip
  \/ ContributionCall
  \/ CrawlStep
  \/ CrawlReturn
  \/ ContributionReturn
  \/ ContributionAppend
  \/ ExtractReturn

SpecFault == InitFault /\ [][NextFault]_vars

\* ------------------------------------------------------- object class harness

\* statements whose objects are a research problem, a literal, a resource, an
\* object of another class and a resource without id, under problem and
\* method predicates
ClassPool ==
  { [predicate |-> HasPred,
     object |-> [id |-> "R2", label |-> <<"accuracy">>, _class |-> "ResearchProblem"]],
    [predicate |-> Pred("problem"), object |-> Literal(<<"accuracy">>)],
    [predicate |-> Pred("problem"),
     object |-> [id |-> "R2", label |-> <<"foo">>, _class |-> "resource"]],
    [predicate |-> Pred("method"),
     object |-> [id |-> "R2", label |-> <<"CNN">>, _class |-> "class"]],
    [predicate |-> Pred("method"), object |-> Literal(<<"CNN">>)],
    [predicate |-> Pred("method"),
     object |-> [id |-> "", label |-> <<"metric">>, _class |-> "resource"]] }

\* the paper extraction over graphs of these statements
NextClasses ==
  \/ \E n \in Nodes, st \in ClassPool : AddStatement(n, st, MaxFacts)
  \/ \E p \in Papers : ExtractCall(p, DEFAULT_DEPTH)
  \/ ContributionSkip
  \/ ContributionCall
  \/ CrawlStep
  \/ CrawlReturn
  \/ ContributionReturn
  \/ ContributionAppend
  \/ ExtractReturn

SpecClasses == Init /\ [][NextClasses]_vars

\* ------------------------------------------------------ leaf extraction harness

MaxLeafDepth == 2
MaxLeafNodes == 2
MaxLeafStmts == 2

\* extract_semantic_leaves(client, "R1", max_depth=d, max_nodes=m) is called
LeavesCall(d, m) ==
  /\ pc = "setup"
  /\ pc' = "leaves"
  /\ crawl' = LeavesStart("R1", d, m)
  /\ UNCHANGED <<graph, client, cls, contrib, ext, faults>>

\* one turn of `while queue and len(seen) < max_nodes`
LeavesStep ==
  /\ pc = "leaves"
  /\ crawl.queue # <<>>
  /\ Cardinality(crawl.seen) < crawl.max_nodes
  /\ \E r \in {LeavesIterate(crawl, client, graph)} :
       /\ crawl' = r.leaves
       /\ client' = r.client
  /\ UNCHANGED <<pc, graph, cls, contrib, ext, faults>>

\* the loop is over: de-duplication and `return out`
LeavesReturn ==
  /\ pc = "leaves"
  /\ ~(crawl.queue # <<>> /\ Cardinality(crawl.seen) < crawl.max_nodes)
  /\ pc' = "leaved"
  /\ ext' = [out |-> OrderedUnique(crawl.values, <<>>)]
  /\ UNCHANGED <<graph, client, cls, crawl, contrib, faults>>

LeavesRun == LeavesStep \/ LeavesReturn

\* leaf extraction with every depth and node bound, over graphs of resource
\* edges (cycles and self-loops included)
NextLeavesFair ==
  \/ \E n \in FairSources, st \in ResourcePool : AddStatement(n, st, MaxStmtsFair)
  \/ \E d \in 0..MaxLeafDepth, m \in 0..MaxLeafNodes : LeavesCall(d, m)
  \/ LeavesStep
  \/ LeavesReturn

\* the loop is the only thing the call does: it runs whenever it can
SpecLeavesFair == Init /\ [][NextLeavesFair]_vars /\ WF_vars(LeavesRun)

\* literal objects: empty, two characters, three, four, boilerplate, padded
\* with blanks, and URL-shaped boilerplate
LeafLiteralLabels ==
  { <<>>, <<"ok">>, <<"f1s">>, <<"uses">>, <<"list">>, <<" ", "f1s", " ">>, NoisyUrl }

\* predicates: no name in the label, the capitalised word, a word that
\* contains it, and a predicate without label
LeafPredicates ==
  { Pred("has"), Pred("Name"), Pred("filename"), [id |-> "P32"] }

\* the nodes the literals hang on: the start node and one a resource edge
\* leads to
LeafEdges ==
  {[predicate |-> HasPred, object |-> [id |-> n, label |-> <<"foo">>, _class |-> "resource"]]
     : n \in {"R1", "R2"}}

LeafLiteralPool ==
  {[predicate |-> p, object |-> Literal(l)] : p \in LeafPredicates, l \in LeafLiteralLabels}

\* leaf extraction with the configured bounds over graphs of literals and
\* resource edges
NextLeaves ==
  \/ \E n \in {"R1", "R2"}, st \in LeafLiteralPool \cup LeafEdges :
       AddStatement(n, st, MaxLeafStmts)
  \/ LeavesCall(settings.LEAVES_MAX_DEPTH, settings.LEAVES_MAX_NODES)
  \/ LeavesStep
  \/ LeavesReturn

SpecLeaves == Init /\ [][NextLeaves]_vars

\* --------------------------------------------------------- _get_json harness

MaxRetries == 3

\* what one session.get / raise_for_status / r.json() can end in
HttpErrors == {"ConnectionError", "HTTPError", "JSONDecodeError"}
HttpOutcomes == {"ok"} \cup HttpErrors

Max(a, b) == IF a >= b THEN a ELSE b

\* mutant: the failed attempt is never taken for the last one
LastAttempt_never(attempt, retries) == FALSE

\* `if attempt >= retries: break`
LastAttempt(attempt, retries) == attempt >= retries

\* _get_json is called with settings.HTTP_MAX_RETRIES = r
GetJsonCall(r) ==
  /\ pc = "setup"
  /\ pc' = "attempt"
  /\ ext' = [ HTTP_MAX_RETRIES |-> r, retries |-> Max(0, r), attempt |-> 0,
              attempts |-> <<>>, sleeps |-> <<>>, last_err |-> NoneStr,
              result |-> NoneStr, raised |-> NoneStr ]
  /\ UNCHANGED <<graph, client, cls, crawl, contrib, faults>>

\* one turn of `for attempt in range(retries + 1)`: the request and its outcome
GetJsonAttempt(outcome) ==
  /\ pc = "attempt"
  /\ ext.attempt < ext.retries + 1
  /\ IF outcome = "ok"
     THEN /\ ext' = [ext EXCEPT !.attempts = Append(@, outcome),
                                !.result = "response"]
          /\ pc' = "returned"
     ELSE IF LastAttempt(ext.attempt, ext.retries)
     THEN /\ ext' = [ext EXCEPT !.attempts = Append(@, outcome),
                                !.last_err = outcome, !.raised = outcome]
          /\ pc' = "raised"
     ELSE /\ ext' = [ext EXCEPT !.attempts = Append(@, outcome),
                                !.last_err = outcome]
          /\ pc' = "sleep"
  /\ UNCHANGED <<graph, client, cls, crawl, contrib, faults>>

\* `time.sleep(backoff * (2 ** attempt))`, in units of backoff, and the next
\* value of the loop variable (`raise last_err` when the range is used up)
GetJsonSleep ==
  /\ pc = "sleep"
  /\ IF ext.attempt + 1 < ext.retries + 1
     THEN /\ ext' = [ext EXCEPT !.sleeps = Append(@, 2 ^ ext.attempt),
                                !.attempt = @ + 1]
          /\ pc' = "attempt"
     ELSE /\ ext' = [ext EXCEPT !.sleeps = Append(@, 2 ^ ext.attempt),
                                !.raised = ext.last_err]
          /\ pc' = "raised"
  /\ UNCHANGED <<graph, client, cls, crawl, contrib, faults>>

NextGetJson ==
  \/ \E r \in (-1)..MaxRetries : GetJsonCall(r)
  \/ \E outcome \in HttpOutcomes : GetJsonAttempt(outcome)
  \/ GetJsonSleep

SpecGetJson == Init /\ [][NextGetJson]_vars

\* --------------------------------------------------------- pagination harness

MaxPageStmts == 4
MaxPageSize == 2
MaxPagesArg == 3

\* how often a harness repeats a call on the same arguments
MaxCalls == 2

\* the i-th statement the API holds for the subject (all different)
PageStmt(i) == [predicate |-> Pred("has"), object |-> Literal([j \in 1..i |-> "x"])]

\* a graph whose node R1 has n statements, served with or without totalPages
PagedGraph(n, reports_total) ==
  LET g == [NoGraph EXCEPT !["R1"] = [i \in 1..n |-> PageStmt(i)]]
  IN IF reports_total THEN g ELSE ("omitTotalPages" :> TRUE) @@ g

\* a fresh client and one get_all_statements call about to be made
InitPages ==
  /\ pc = "pages"
  /\ \E n \in 0..MaxPageStmts, t \in BOOLEAN : graph = PagedGraph(n, t)
  /\ client = NewClient
  /\ cls = NoCall
  /\ crawl = NoCrawl
  /\ contrib = NoCall
  /\ faults = 0
  /\ \E size \in 1..MaxPageSize, mp \in 1..MaxPagesArg :
       ext = [subject_id |-> "R1", page_size |-> size, max_pages |-> mp,
              out |-> None, calls |-> 0]

\* client.get_all_statements(subject_id, page_size=, max_pages=)
GetAllStatementsCall ==
  /\ pc = "pages"
  /\ ext.calls < MaxCalls
  /\ \E r \in {get_all_statements(client, graph, ext.subject_id, ext.page_size,
                                   ext.max_pages)} :
       /\ ext' = [ext EXCEPT !.out = r.out, !.calls = @ + 1]
       /\ client' = r.client
  /\ UNCHANGED <<pc, graph, cls, crawl, contrib, faults>>

NextPages == GetAllStatementsCall

SpecPages == InitPages /\ [][NextPages]_vars

\* ------------------------------------------------------------- cache harness

MaxClientCalls == 3

\* the papers the API holds
ApiPaper(paper_id) == [id |-> paper_id, title |-> <<"foo">>]

\* the calls a user of the client can make
ClientCalls ==
  {[op |-> "get_paper", key |-> <<paper_id>>] : paper_id \in {"P1", "P2"}}
    \cup {[op |-> "get_statements_page", key |-> <<sid, page, size>>]
            : sid \in {"R1", "R2"}, page \in {0, 1}, size \in {1, DEFAULT_PAGE_SIZE}}

\* a fresh client, an API with two statements on R1, one request that fails
InitCache ==
  /\ pc = "calls"
  /\ graph = PagedGraph(2, TRUE)
  /\ client = NewClient
  /\ cls = NoCall
  /\ crawl = NoCrawl
  /\ contrib = NoCall
  /\ ext = [calls |-> <<>>]
  /\ faults \in 0..MaxFaultAt

\* one call on the client; its caller catches the exception if it raises
ClientCall(c) ==
  /\ pc = "calls"
  /\ Len(ext.calls) < MaxClientCalls
  /\ \E r \in {IF c.op = "get_paper"
                THEN get_paper(client, ApiPaper(c.key[1]), c.key[1])
                ELSE get_statements_page(client, graph, c.key[1], c.key[2], c.key[3])} :
       /\ client' = [r.client EXCEPT !.raised = NoneStr]
       /\ ext' = [ext EXCEPT !.calls = Append(@,
            [ op |-> c.op, key |-> c.key,
              requested |-> Len(r.client.requests) > Len(client.requests),
              raised |-> Raised(r.client),
              data |-> r.data ])]
  /\ UNCHANGED <<pc, graph, cls, crawl, contrib, faults>>

NextCache == \E c \in ClientCalls : ClientCall(c)

SpecCache == InitCache /\ [][NextCache]_vars


\* ------------------------------------------------------------ bundle claims

\* the bundle extract_contribution_bundle has returned, if any
ReturnedContribs == IF "compact" \in DOMAIN contrib THEN {contrib} ELSE {}

\* the contribution bundles stored in the paper bundle so far
StoredContribs ==
  IF ext = NoCall THEN {}
  ELSE {ext.bundle.contributions[i] : i \in DOMAIN ext.bundle.contributions}

\* every compact-facts record produced so far
ProducedCompacts ==
  {c.compact : c \in ReturnedContribs \cup StoredContribs}
    \cup (IF pc = "done" THEN {ext.bundle.paper_core} ELSE {})

CompactFields == {"problems", "methods", "data", "evaluation", "artifacts"}

\* what compaction yields for the method bucket of bundle c, before any guard
RawMethods(c) == _compact_bucket(client, graph, Get(c.buckets, "method", <<>>)).out

\* field k of the stored contributions, concatenated in list order
RECURSIVE FieldConcat(_, _)
FieldConcat(contribs, k) ==
  IF contribs = <<>> THEN <<>>
  ELSE Head(contribs).compact[k] \o FieldConcat(Tail(contribs), k)

\* s restricted to the index set I, order kept
AtIndexes(s, I) ==
  LET nth(n) == CHOOSE i \in I : Cardinality({j \in I : j < i}) = n - 1
  IN [n \in 1..Cardinality(I) |-> s[nth(n)]]

\* s with every repeated string dropped after its first occurrence
FirstOccurrences(s) ==
  AtIndexes(s, {i \in DOMAIN s : \A j \in 1..(i - 1) : s[j] # s[i]})

\* s without the strings that occur in `banned`
Without(s, banned) ==
  AtIndexes(s, {i \in DOMAIN s : \A j \in DOMAIN banned : banned[j] # s[i]})

\* C1: no string is in both the evaluation list and the methods list of any
\* produced compact-facts record, for the compact of every contribution bundle
\* returned by extract_contribution_bundle and for the merged paper_core.
C1_NoEvaluationInMethods ==
  \A c \in ProducedCompacts : Range(c.evaluation) \cap Range(c.methods) = {}

\* a finished extraction in which one contribution's own method bucket held an
\* evaluation string, and another contribution's methods held a string that
\* only the merged evaluation list contains
C1_Witness ==
  /\ pc = "done"
  /\ \E c \in StoredContribs : Range(RawMethods(c)) \cap Range(c.compact.evaluation) # {}
  /\ \E c \in StoredContribs :
       /\ c.compact.methods # <<>>
       /\ Range(c.compact.methods) \subseteq Range(ext.bundle.paper_core.evaluation)

\* C2: no list of any contribution's compact facts or of paper_core contains a
\* value that is_noise_value marks as noise, whether it was appended from a
\* literal object or reached through leaf extraction (URL-shaped literals too).
C2_NoNoiseInCompact ==
  \A c \in ProducedCompacts : \A k \in CompactFields :
    \A i \in DOMAIN c[k] : ~is_noise_value(c[k][i])

\* C3: no list of any produced compact-facts record contains a string twice,
\* also after the leakage guard has filtered methods and when several
\* contributions supply the same string.
C3_NoDuplicates ==
  \A c \in ProducedCompacts : \A k \in CompactFields :
    \A i, j \in DOMAIN c[k] : i # j => c[k][i] # c[k][j]

\* a finished extraction in which a bucket collected the same string twice
\* (from a literal and from the leaves of a resource) and two contributions
\* supplied the same string to one list of paper_core
C3_Witness ==
  /\ pc = "done"
  /\ \E c \in StoredContribs :
       LET raw == CompactValues(client, graph, Get(c.buckets, "method", <<>>)).values
       IN \E i, j \in DOMAIN raw : i # j /\ raw[i] = raw[j]
  /\ \E k \in CompactFields :
       Len(FieldConcat(ext.bundle.contributions, k)) > Len(ext.bundle.paper_core[k])
  /\ \E k \in CompactFields : ext.bundle.paper_core[k] # <<>>

\* C4: paper_core's problems, data, evaluation and artifacts each equal the
\* concatenation of that field over the contributions in list order with every
\* repeated string dropped after its first occurrence; paper_core's methods is
\* the same ordered union without the strings of the merged evaluation list.
C4_PaperCoreIsOrderedUnion ==
  pc = "done" =>
    LET contribs == ext.bundle.contributions
        core == ext.bundle.paper_core
    IN /\ \A k \in CompactFields \ {"methods"} :
            core[k] = FirstOccurrences(FieldConcat(contribs, k))
       /\ core.methods =
            Without(FirstOccurrences(FieldConcat(contribs, "methods")),
                    FirstOccurrences(FieldConcat(contribs, "evaluation")))

\* a merge of three contributions in which a repeated evaluation string was
\* dropped and a method string of one contribution was removed because another
\* contribution lists it under evaluation
C4_Witness ==
  /\ pc = "done"
  /\ Len(ext.bundle.contributions) = 3
  /\ Len(FieldConcat(ext.bundle.contributions, "evaluation"))
       > Len(ext.bundle.paper_core.evaluation)
  /\ FieldConcat(ext.bundle.contributions, "methods") # <<>>
  /\ ext.bundle.paper_core.methods = <<>>


\* ----------------------------------------------------- unmatched statements

FiveBuckets == {"problem", "method", "data", "evaluation", "artifact"}

\* the stripped labels of the literal objects among the normalized statements xs
LiteralLabels(xs) ==
  {Strip(OrEmpty(xs[i].object.label)) :
     i \in {j \in DOMAIN xs : xs[j].object.class = "literal"}}

\* literal values that only other-classified statements of the crawl carry
OnlyOtherLiterals(c) ==
  LiteralLabels(Get(c.buckets, "other", <<>>))
    \ UNION {LiteralLabels(Get(c.buckets, t, <<>>)) : t \in FiveBuckets}

CompactValuesOf(c) == UNION {Range(c.compact[k]) : k \in CompactFields}

\* every crawled statement classified other sits in the raw bucket `other`
OtherRetained(c) ==
  LET other == SelectSeq(crawl.statements,
                 LAMBDA st : classify_statement(st, ext.rules, c.label) = "other")
  IN Get(c.buckets, "other", <<>>) = [i \in DOMAIN other |-> _normalize_statement(other[i])]

\* the literal labels on the statements of the nodes reachable from node n
\* by resource edges, n included
LiteralsBelow(n) ==
  UNION {{Strip(OrEmpty(Get(Get(graph[m][i], "object", EmptyDict), "label", None))) :
            i \in {j \in DOMAIN graph[m] :
                     Get(Get(graph[m][j], "object", EmptyDict), "_class", NoneStr)
                       = "literal"}}
         : m \in ReachableWithin(graph, n, settings.LEAVES_MAX_DEPTH) \cap Nodes}

\* the literal labels below the resource objects of the compacted buckets of c
BelowCompactedResources(c) ==
  UNION {UNION {LiteralsBelow(Get(c.buckets, t, <<>>)[i].object.id) :
                  i \in {j \in DOMAIN Get(c.buckets, t, <<>>) :
                           /\ Get(c.buckets, t, <<>>)[j].object.class = "resource"
                           /\ Truthy(Get(c.buckets, t, <<>>)[j].object.id)}}
         : t \in FiveBuckets}

\* C12 as stated: other-classified statements are retained in the raw bucket
\* map, and a literal value that is the object only of other-classified
\* statements of the crawl is in none of the five compact lists.
C12_OtherNeverCompacted ==
  pc = "returned" =>
    /\ OtherRetained(contrib)
    /\ OnlyOtherLiterals(contrib) \cap CompactValuesOf(contrib) = {}

\* C12 amended: other-classified statements are retained in the raw bucket map
\* and the other bucket is not compacted; a literal value that is the object
\* only of other-classified statements is in a compact list only when it lies
\* below the resource object of a statement of one of the five compacted
\* buckets, where leaf extraction collects it.
C12_OtherOnlyThroughLeaves ==
  pc = "returned" =>
    /\ OtherRetained(contrib)
    /\ (OnlyOtherLiterals(contrib) \cap CompactValuesOf(contrib))
         \subseteq BelowCompactedResources(contrib)

\* a returned contribution whose other bucket holds a literal that is in no
\* compact list although the methods list is not empty
C12_Witness ==
  /\ pc = "returned"
  /\ OnlyOtherLiterals(contrib) # {}
  /\ OnlyOtherLiterals(contrib) \cap CompactValuesOf(contrib) = {}
  /\ contrib.compact.methods # <<>>


\* ------------------------------------------------------------ depth argument

\* C13: the crawl of every contribution of a paper is bounded by the depth
\* argument of the paper-level entry point: no node deeper than that argument
\* is fetched by any contribution crawl.
C13_CrawlBoundedByDepthArgument ==
  (ext # NoCall /\ pc \in {"crawl", "crawled"}) =>
    \A k \in DOMAIN crawl.fetched : crawl.fetched[k][2] <= ext.depth


\* ------------------------------------------------------ collaborator failure

\* the request on which _get_json gave up has been sent
FetchFailed == faults # 0 /\ Len(client.requests) >= faults

\* C14: if get_paper or a statement fetch raises during a paper extraction, the
\* extraction fails with that error and returns no bundle (the bundles of the
\* contributions already processed included), no collaborator call follows the
\* failure, and the failed fetch is not sent a second time.
C14_FailureIsFatal ==
  FetchFailed =>
    /\ pc = "failed"
    /\ client.raised = "HTTPError"
    /\ Len(client.requests) = faults
    /\ \A k \in 1..(faults - 1) : client.requests[k] # client.requests[faults]

\* the statement fetch of the second contribution's crawl failed after the
\* first contribution's bundle had been appended
C14_Witness ==
  /\ pc = "failed"
  /\ ext # NoCall
  /\ Len(ext.bundle.contributions) >= 1
  /\ crawl.root_id # ext.bundle.contributions[1].id
  /\ client.requests[faults].url = "statements"


\* ------------------------------------------------------- skipped entries

\* the ids of the bundles in the paper bundle, in order
BundleIds ==
  [i \in DOMAIN ext.bundle.contributions |-> ext.bundle.contributions[i].id]

\* the ids of the paper's contribution entries that have a non-empty id, in order
EntryIds ==
  LET entries == Contributions
      kept == AtIndexes(entries, {i \in DOMAIN entries :
                                    "id" \in DOMAIN entries[i] /\ entries[i].id # ""})
  IN [i \in DOMAIN kept |-> kept[i].id]

\* a step of the contribution loop that starts no contribution: a skip
SkipStep == pc = "contribs" /\ pc' = "contribs"

\* C15: a contribution entry whose id is missing or empty is skipped without
\* failing the extraction: the contributions list holds exactly one bundle per
\* entry with a non-empty id, in the paper's order, and skipping an entry makes
\* no collaborator call.
C15_EntriesWithoutIdSkipped ==
  /\ [](pc # "failed")
  /\ [](pc = "done" => BundleIds = EntryIds)
  /\ [][SkipStep => client' = client]_vars

\* a finished extraction of a paper that has an entry without id and an entry
\* with an empty id between two entries that were extracted
C15_Witness ==
  /\ pc = "done"
  /\ \E i \in DOMAIN Contributions : "id" \notin DOMAIN Contributions[i]
  /\ \E i \in DOMAIN Contributions : Get(Contributions[i], "id", NoneStr) = ""
  /\ Len(ext.bundle.contributions) = 2
  /\ ext.bundle.contributions[2].id = Contributions[Len(Contributions)].id


\* ------------------------------------------------------------ empty results

\* a compact-facts record with its five lists present, none of them None
AllFivePresent(c) ==
  /\ DOMAIN c = CompactFields
  /\ \A k \in CompactFields : c[k] # None /\ DOMAIN c[k] = 1..Len(c[k])

AllFiveEmpty(c) == DOMAIN c = CompactFields /\ \A k \in CompactFields : c[k] = <<>>

\* no statement of the crawl has a literal object, so nothing can be collected
NoLiteralCrawled ==
  \A i \in DOMAIN crawl.statements :
    Get(Get(crawl.statements[i], "object", EmptyDict), "_class", NoneStr) # "literal"

\* C16: empty inputs give empty lists, never absent or null fields: a paper
\* with zero contributions yields an empty contributions list and a paper_core
\* with all five lists present and empty; a contribution whose crawl returns
\* zero statements, or whose buckets yield zero leaves, yields a compact with
\* all five lists present and empty.
C16_EmptyInputsGiveEmptyLists ==
  /\ \A c \in ProducedCompacts : AllFivePresent(c)
  /\ (pc = "done" /\ EntryIds = <<>>) =>
       ext.bundle.contributions = <<>> /\ AllFiveEmpty(ext.bundle.paper_core)
  /\ (pc = "returned" /\ NoLiteralCrawled) => AllFiveEmpty(contrib.compact)

\* a returned contribution whose crawl found only a resource edge under a
\* method predicate, whose leaves are empty, after a contribution whose crawl
\* returned no statement at all
C16_Witness ==
  /\ pc = "returned"
  /\ crawl.statements # <<>>
  /\ NoLiteralCrawled
  /\ Get(contrib.buckets, "method", <<>>) # <<>>
  /\ AllFiveEmpty(contrib.compact)
  /\ Len(ext.bundle.contributions) = 1
  /\ ext.bundle.contributions[1].buckets = <<>>
  /\ AllFiveEmpty(ext.bundle.contributions[1].compact)


\* ------------------------------------------------------ index builders' bundle

\* C17: the bundle the document and index builders consume carries a
\* paper_core equal to the merge of its contributions' compacts, as the bundle
\* of extract_template_agnostic_paper_bundle does.
C17_IndexBundleHasPaperCore ==
  pc = "done" =>
    /\ "paper_core" \in DOMAIN ext.bundle
    /\ ext.bundle.paper_core =
         merge_paper_core_from_contributions(ext.bundle.contributions)


\* ------------------------------------------------- returned bundles are frozen

\* the bundles stored in the paper bundle keep their compact and bucket map
StoredKept ==
  \A i \in DOMAIN ext.bundle.contributions :
    /\ ext'.bundle.contributions[i].compact = ext.bundle.contributions[i].compact
    /\ ext'.bundle.contributions[i].buckets = ext.bundle.contributions[i].buckets

\* the bundle just returned is appended with its compact and bucket map as returned
ReturnedKept ==
  LET n == Len(ext'.bundle.contributions)
  IN /\ n = Len(ext.bundle.contributions) + 1
     /\ ext'.bundle.contributions[n].compact = contrib.compact
     /\ ext'.bundle.contributions[n].buckets = contrib.buckets
     /\ contrib'.compact = contrib.compact
     /\ contrib'.buckets = contrib.buckets

\* C18: once extract_contribution_bundle has returned a bundle, the values of
\* its compact lists and of its bucket map never change: the second
\* leakage-guard pass and merge_paper_core_from_contributions leave every
\* contribution's compact exactly as it was returned.
C18_ReturnedBundlesNeverChange ==
  [][ /\ (pc = "returned" /\ pc' # "returned") => ReturnedKept
      /\ (pc \in {"contribs", "crawl", "crawled", "returned", "done"}) => StoredKept ]_vars

\* a finished extraction after the second pass and the merge have run over a
\* contribution that has both methods and evaluation values
C18_Witness ==
  /\ pc = "done"
  /\ \E c \in StoredContribs : c.compact.methods # <<>> /\ c.compact.evaluation # <<>>
  /\ ext.bundle.paper_core.methods # <<>>

\* ------------------------------------------------------------- idempotence

\* C19: extract_contribution_bundle run twice with the same contribution id,
\* label and rule set against an unchanged graph, the second run served from
\* the client's cache, yields compact lists with identical contents and order.
C19_SecondRunSameCompact ==
  pc = "done" =>
    \A i, j \in DOMAIN ext.bundle.contributions :
      (/\ ext.bundle.contributions[i].id = ext.bundle.contributions[j].id
       /\ ext.bundle.contributions[i].label = ext.bundle.contributions[j].label)
        => ext.bundle.contributions[i].compact = ext.bundle.contributions[j].compact

\* the same contribution extracted twice, its methods list holding two values
\* collected below a resource, every node requested once only
C19_Witness ==
  /\ pc = "done"
  /\ Len(ext.bundle.contributions) = 2
  /\ ext.bundle.contributions[1].id = ext.bundle.contributions[2].id
  /\ Len(ext.bundle.contributions[2].compact.methods) = 2
  /\ Cardinality(crawl.seen) = 2
  /\ Len(client.requests) = 3

\* ---------------------------------------------------- compaction by object class

\* the raw bucket a compact list is built from
BucketOf(k) ==
  CASE k = "problems" -> "problem"
    [] k = "methods" -> "method"
    [] k = "data" -> "data"
    [] k = "evaluation" -> "evaluation"
    [] k = "artifacts" -> "artifact"

\* what the statements of bucket t with a literal object, or a resource object
\* with a non-empty id, can supply: the literal's label, the literals below
\* the resource
SuppliedBy(c, t) ==
  LET items == Get(c.buckets, t, <<>>)
  IN LiteralLabels(items)
       \cup UNION {LiteralsBelow(items[i].object.id) :
                     i \in {j \in DOMAIN items :
                              /\ items[j].object.class = "resource"
                              /\ items[j].object.id \notin {NoneStr, ""}}}

\* C27: bucket compaction takes values only from statements whose object class
\* is exactly resource (with a non-empty id) or exactly literal: a statement
\* with an object of any other class, one bucketed problem for its
\* research-problem class included, adds no string to any compact list.
C27_OnlyResourceAndLiteralCompacted ==
  pc = "returned" =>
    \A k \in DOMAIN contrib.compact :
      Range(contrib.compact[k]) \subseteq SuppliedBy(contrib, BucketOf(k))

\* a returned contribution whose problem bucket holds the research-problem
\* object "accuracy" and whose problems list is empty, while the method
\* literal was compacted
C27_Witness ==
  /\ pc = "returned"
  /\ \E i \in DOMAIN Get(contrib.buckets, "problem", <<>>) :
       /\ contrib.buckets["problem"][i].object.class = "ResearchProblem"
       /\ contrib.buckets["problem"][i].object.label = <<"accuracy">>
  /\ contrib.compact.problems = <<>>
  /\ contrib.compact.methods = <<<<"CNN">>>>

\* --------------------------------------------------- evidence contributions

EvidenceReturned ==
  pc = "returned" /\ Search(ext.rules.evidence_label, contrib.label)

\* C28: for a contribution whose label matches the evidence-label pattern no
\* crawled statement is bucketed method or other, a statement is bucketed
\* problem only through the research-problem-class rule, and the compact
\* methods list is empty.
C28_EvidenceHasNoMethods ==
  EvidenceReturned =>
    /\ "method" \notin DOMAIN contrib.buckets
    /\ "other" \notin DOMAIN contrib.buckets
    /\ \A i \in DOMAIN Get(contrib.buckets, "problem", <<>>) :
         contrib.buckets["problem"][i].object.class
           \in ext.rules.research_problem_classes
    /\ contrib.compact.methods = <<>>

\* a returned evidence contribution that crawled a statement with a method
\* predicate, one with a problem predicate and a research-problem object
C28_Witness ==
  /\ EvidenceReturned
  /\ \E i \in DOMAIN crawl.statements :
       crawl.statements[i].predicate = Pred("method")
  /\ \E i \in DOMAIN crawl.statements :
       crawl.statements[i].predicate = Pred("problem")
  /\ Len(Get(contrib.buckets, "problem", <<>>)) = 1
  /\ contrib.compact.evaluation # <<>>

\* ------------------------------------------------------------------ retries

GetJsonCalled == pc \in {"attempt", "sleep", "returned", "raised"}

AllFailed(outcomes) == \A i \in DOMAIN outcomes : outcomes[i] \in HttpErrors

\* at most max(0, HTTP_MAX_RETRIES) + 1 attempts; nothing after a success;
\* one wait after each failed attempt but the last; the last error raised
RetryDiscipline ==
  GetJsonCalled =>
    /\ Len(ext.attempts) <= Max(0, ext.HTTP_MAX_RETRIES) + 1
    /\ AllFailed(SubSeq(ext.attempts, 1, Len(ext.attempts) - 1))
    /\ pc = "attempt" => Len(ext.sleeps) = Len(ext.attempts)
    /\ pc = "sleep" => Len(ext.sleeps) = Len(ext.attempts) - 1
    /\ pc = "returned" =>
         /\ ext.attempts[Len(ext.attempts)] = "ok"
         /\ ext.result = "response"
         /\ Len(ext.sleeps) = Len(ext.attempts) - 1
    /\ pc = "raised" =>
         /\ Len(ext.attempts) = Max(0, ext.HTTP_MAX_RETRIES) + 1
         /\ AllFailed(ext.attempts)
         /\ ext.raised = ext.attempts[Len(ext.attempts)]
         /\ Len(ext.sleeps) = Len(ext.attempts) - 1

\* C29: _get_json makes at most max(0, HTTP_MAX_RETRIES) + 1 attempts, returns
\* the response of the first successful one without a further attempt, waits
\* only between attempts, and raises the last attempt's error when all fail.
C29_GetJsonRetries ==
  /\ []RetryDiscipline
  /\ [][pc \notin {"returned", "raised"}]_vars

\* a call with three retries that failed four times with different errors and
\* raised the last one after three waits
C29_Witness ==
  /\ pc = "raised"
  /\ ext.HTTP_MAX_RETRIES = 3
  /\ Len(ext.attempts) = 4
  /\ ext.attempts[1] # ext.attempts[4]
  /\ ext.sleeps = <<1, 2, 4>>
  /\ ext.raised = ext.attempts[4]

\* ---------------------------------------------------------------------- cache

\* the calls before call i with the same operation and key that were answered
EarlierAnswers(i) ==
  {j \in 1..(i - 1) :
     /\ ext.calls[j].op = ext.calls[i].op
     /\ ext.calls[j].key = ext.calls[i].key
     /\ ~ext.calls[j].raised}

\* a call answered before is answered from the cache with the same response
\* and no request; any other call sends a request
CacheDiscipline ==
  pc = "calls" =>
    \A i \in DOMAIN ext.calls :
      IF EarlierAnswers(i) # {}
      THEN /\ ~ext.calls[i].requested
           /\ ~ext.calls[i].raised
           /\ \A j \in EarlierAnswers(i) : ext.calls[i].data = ext.calls[j].data
      ELSE ext.calls[i].requested

\* a call that raises leaves both caches as they were
RaiseKeepsCaches ==
  (pc = "calls" /\ Len(ext'.calls) > Len(ext.calls)
     /\ ext'.calls[Len(ext'.calls)].raised)
    => /\ client'.statements_cache = client.statements_cache
       /\ client'.paper_cache = client.paper_cache

\* C30: on one client each statements-page key and each paper id is fetched
\* successfully at most once: after a successful fetch every later call with
\* that key is answered from the cache without a request; a fetch that raises
\* leaves both caches unchanged, so the next call with the key asks again.
C30_FetchedAtMostOnce ==
  /\ []CacheDiscipline
  /\ [][RaiseKeepsCaches]_vars

\* the same paper asked for three times: the first fetch raised, the second
\* was answered by the API, the third by the cache
C30_Witness ==
  /\ pc = "calls"
  /\ Len(ext.calls) = 3
  /\ \A i \in 1..3 : ext.calls[i].op = "get_paper" /\ ext.calls[i].key = <<"P1">>
  /\ ext.calls[1].raised
  /\ ext.calls[2].requested /\ ~ext.calls[2].raised
  /\ ~ext.calls[3].requested
  /\ ext.calls[3].data = ApiPaper("P1")

\* ------------------------------------------------------------ skip diagnostics

\* C26: each time a contribution entry lacking an id is skipped, a diagnostic
\* note recording the skip is produced: a log entry or a note in the bundle.
C26_SkipIsNoted ==
  [][SkipStep => (ext'.log # ext.log \/ ext'.bundle # ext.bundle)]_vars

\* ------------------------------------------------------------- call ordering

\* the contribution entries of the paper as get_paper returned them
PaperEntries == Get(ext.paper, "contributions", <<>>)

\* the ids of the entries before position i that have a non-empty id, in order
IdsBefore(i) ==
  LET kept == AtIndexes(PaperEntries,
                        {k \in DOMAIN PaperEntries :
                           /\ k < i
                           /\ "id" \in DOMAIN PaperEntries[k]
                           /\ PaperEntries[k].id # ""})
  IN [k \in DOMAIN kept |-> kept[k].id]

InContribution == pc \in {"crawl", "crawled", "returned"}

\* the request log starts with the one paper request; all others are statement
\* fetches
PaperFetchedFirstAndOnce ==
  pc # "setup" =>
    /\ client.requests # <<>>
    /\ client.requests[1].url = "papers"
    /\ \A k \in 2..Len(client.requests) : client.requests[k].url = "statements"

\* the contribution at work is entry i, and the bundles appended so far are
\* those of the entries before it, in list order
OneAtATimeInListOrder ==
  InContribution =>
    /\ ext.i \in DOMAIN PaperEntries
    /\ (IF pc = "returned" THEN contrib.id ELSE contrib.contribution_id)
         = PaperEntries[ext.i].id
    /\ BundleIds = IdsBefore(ext.i)

\* classification and leaf extraction start with the crawl's queue empty
CrawlCompleteBeforeClassification ==
  pc \in {"crawled", "returned"} => crawl.queue = <<>>

\* paper_core is filled only when every entry has been walked
PaperCoreLast ==
  /\ (pc \in {"contribs"} \cup {"crawl", "crawled", "returned"})
       => ext.bundle.paper_core = EmptyCompact
  /\ pc = "done" => BundleIds = IdsBefore(Len(PaperEntries) + 1)

\* requests are sent by the crawl (each one a fetch it records) or, with the
\* crawl over and unchanged, by leaf extraction in the step that returns the
\* bundle; the bundle with its buckets appears in that step only; and the
\* position in the contribution list never goes back
StepsInOrder ==
  /\ (pc # "setup" /\ client'.requests # client.requests) =>
       \/ pc = "crawl" /\ pc' = "crawl"
            /\ Len(crawl'.fetched) = Len(crawl.fetched) + 1
       \/ pc = "crawled" /\ pc' = "returned" /\ crawl' = crawl
  /\ (pc # "setup" /\ "buckets" \in DOMAIN contrib' /\ "buckets" \notin DOMAIN contrib)
       => pc = "crawled"
  /\ (pc # "setup" /\ pc' # "setup") => ext'.i >= ext.i
  /\ (InContribution /\ pc' \in {"crawl", "crawled", "returned"}) => ext'.i = ext.i

\* C23: in one paper extraction get_paper is called once and before any
\* statement fetch; contributions are processed one at a time in list order;
\* within a contribution every crawl fetch precedes classification and leaf
\* extraction; and paper_core is computed after the last contribution bundle.
C23_CallOrdering ==
  /\ [](PaperFetchedFirstAndOnce /\ OneAtATimeInListOrder
          /\ CrawlCompleteBeforeClassification /\ PaperCoreLast)
  /\ [][StepsInOrder]_vars

\* a finished extraction of a paper with three contributions, each crawled
\* with a request of its own, and a non-empty paper_core
C23_Witness ==
  /\ pc = "done"
  /\ Len(ext.bundle.contributions) = 3
  /\ Len(client.requests) = 4
  /\ ext.bundle.paper_core.methods # <<>>

\* ------------------------------------------------------------ leaf extraction

LeavesCalled == pc \in {"leaves", "leaved"}

LeafFetchedIds == {crawl.fetched[i][1] : i \in DOMAIN crawl.fetched}

\* the bounds hold at every point of the call
LeavesBounded ==
  LeavesCalled =>
    /\ Cardinality(LeafFetchedIds) <= crawl.max_nodes
    /\ \A i \in DOMAIN crawl.fetched : crawl.fetched[i][2] <= crawl.max_depth
    /\ \A i, j \in DOMAIN crawl.fetched :
         crawl.fetched[i][1] = crawl.fetched[j][1] => i = j

\* the call has returned for one of the two reasons
LeavesStopped ==
  pc = "leaved" =>
    \/ crawl.queue = <<>>
    \/ Cardinality(crawl.seen) >= crawl.max_nodes

\* C24: in one extract_semantic_leaves call at most max_nodes distinct nodes
\* are fetched, none at a depth above max_depth, none twice, and the call
\* returns on every finite graph, cyclic ones included, with the queue empty
\* or the visited-node cap reached.
C24_LeavesBoundedAndTerminates ==
  /\ [](LeavesBounded /\ LeavesStopped)
  /\ []<>(pc # "leaves")

\* a returned call on a cycle R1 -> R2 -> R1 that stopped at the node cap with
\* entries left in the queue
C24_Witness ==
  /\ pc = "leaved"
  /\ crawl.queue # <<>>
  /\ Cardinality(crawl.seen) = crawl.max_nodes
  /\ crawl.max_nodes = 2
  /\ \E i \in DOMAIN graph["R2"] : graph["R2"][i].object.id = "R1"

\* every statement of the nodes the call fetched
LeafStatements ==
  UNION {{graph[n][i] : i \in DOMAIN graph[n]} : n \in LeafFetchedIds}

\* the literal as the call reads it: the label without surrounding blanks
LeafLiteral(st) == Strip(st.object.label)

\* the predicate label (the id when there is no label) has "name" in it
NamePredicate(st) ==
  LET lbl == IF "label" \in DOMAIN st.predicate
             THEN st.predicate.label ELSE <<st.predicate.id>>
  IN \E i \in DOMAIN lbl : LowerTok(lbl[i]) \in {"name", "filename"}

LeafNoise(v) ==
  \/ StrLen(v) <= 2
  \/ Lower(v) \in NOISE_OBJECT_LABEL
  \/ Search(NOISE_CONTAINING_ANYWHERE, v)
  \/ Lower(v) \in NOISE_CONTAINING_WHOLE

\* the rule of the claim for one literal statement
ShouldEmit(st) ==
  IF Search(URL_RE, LeafLiteral(st)) THEN TRUE
  ELSE IF NamePredicate(st) THEN ~LeafNoise(LeafLiteral(st))
  ELSE ~LeafNoise(LeafLiteral(st)) /\ StrLen(LeafLiteral(st)) >= 4

C21_AllStatementsComplete ==
  (pc = "pages" /\ ext.calls >= 1) => ext.out = StatementsOf(graph, ext.subject_id)

\* ------------------------------------------------------- classifier harness

MaxPredLabelLen == 1
MaxObjLabelLen == 2

SeqsUpTo(S, n) == UNION {[1..k -> S] : k \in 0..n}

\* one token per cue category, the URL marker, a multi-word cue and a neutral word
ClsVocab == {"problem", "tool", "data", "metric", "code", "method", "HTTP://", "foo"}

ClsPredLabels == SeqsUpTo(ClsVocab, MaxPredLabelLen)
ClsObjLabels == SeqsUpTo(ClsVocab, MaxObjLabelLen)

\* predicate dicts: absent, without label (id only / nothing), or labelled
ClsPredicates ==
  {EmptyDict, [id |-> "P32"], [id |-> "P32", label |-> None]}
    \cup {[id |-> "P32", label |-> l] : l \in ClsPredLabels}

ClsClasses == {"resource", "literal", "ResearchProblem", "Problem"}

ClsObjects ==
  {EmptyDict, [id |-> "R1"], [id |-> "R1", label |-> None, _class |-> "resource"]}
    \cup {[id |-> "R1", label |-> l, _class |-> c] : l \in ClsObjLabels, c \in ClsClasses}

ClsStatements ==
  {[object |-> o] : o \in ClsObjects}
    \cup {[predicate |-> p, object |-> o] : p \in ClsPredicates, o \in ClsObjects}

\* the default rule set and one configured with another research-problem class
AltRules == [ExtractionRules EXCEPT !.research_problem_classes = {"Problem"}]
ClsRules == {ExtractionRules, AltRules}

ClsContributionLabels == {<<"Contribution">>, <<"Evidence">>}


InitClassify ==
  /\ pc = "classify"
  /\ graph = NoGraph
  /\ client = NewClient
  /\ crawl = NoCrawl
  /\ contrib = NoCall
  /\ ext = NoCall
  /\ faults = 0
  /\ \E st \in ClsStatements, r \in ClsRules, cl \in ClsContributionLabels :
       cls = [st |-> st, rules |-> r, contribution_label |-> cl,
              tag |-> NoneStr, calls |-> 0]

\* one call of classify_statement on the arguments held in cls
ClassifyCall ==
  /\ pc = "classify"
  /\ cls.calls < MaxCalls
  /\ cls' = [cls EXCEPT
       !.tag = classify_statement(cls.st, cls.rules, cls.contribution_label),
       !.calls = @ + 1]
  /\ UNCHANGED <<pc, graph, client, crawl, contrib, ext, faults>>

NextClassify == ClassifyCall

SpecClassify == InitClassify /\ [][NextClassify]_vars

\* -------------------------------------------------------- classifier claims

Called == pc = "classify" /\ cls.calls >= 1

\* the arguments of the call, as the claims speak of them
ArgPredLabel == OrEmpty(Get(Get(cls.st, "predicate", EmptyDict), "label", None))
ArgObjLabel == OrEmpty(Get(Get(cls.st, "object", EmptyDict), "label", None))
ArgObjClass == Get(Get(cls.st, "object", EmptyDict), "_class", NoneStr)

CueInEither(cue) == Search(cue, ArgPredLabel) \/ Search(cue, ArgObjLabel)
ObjLooksLikeUrl == Search(URL_RE, ArgObjLabel)

ProblemClassRule == ArgObjClass \in cls.rules.research_problem_classes
UrlLiteralRule == ArgObjClass = "literal" /\ ObjLooksLikeUrl
EvidenceLabel == Search(cls.rules.evidence_label, cls.contribution_label)

\* C8: classify_statement returns exactly one of the six tags for every
\* statement (also with predicate, object, labels or class missing), rule set
\* and contribution label, and a repeated call returns the same tag.
C8_ClassifyTotalAndStable ==
  /\ [](Called => cls.tag \in Tags)
  /\ [][Called => cls'.tag = cls.tag]_vars

\* a second call has returned for a statement that has no predicate and whose
\* object has neither label nor class
C8_Witness ==
  /\ Called
  /\ cls.calls = MaxCalls
  /\ "predicate" \notin DOMAIN cls.st
  /\ DOMAIN cls.st.object = {"id"}
  /\ cls.tag = "other"

\* C9: an object whose class is one of the rule set's research-problem
\* classes is classified problem, whatever the labels are.
C9_ProblemClassDominates ==
  (Called /\ ProblemClassRule) => cls.tag = "problem"

\* a research-problem object under a method predicate, with tool and data cues
\* in its own label, in an evidence contribution
C9_Witness ==
  /\ Called
  /\ ProblemClassRule
  /\ Search(cls.rules.METHOD, ArgPredLabel)
  /\ Search(cls.rules.TOOL, ArgObjLabel)
  /\ Search(cls.rules.DATA, ArgObjLabel)
  /\ EvidenceLabel

NormalCase == Called /\ ~EvidenceLabel /\ ~ProblemClassRule /\ ~UrlLiteralRule
NoCueBeforeEvaluation ==
  ~CueInEither(cls.rules.PROBLEM) /\ ~CueInEither(cls.rules.TOOL)
    /\ ~CueInEither(cls.rules.DATA)
NoCueBeforeMethod ==
  NoCueBeforeEvaluation /\ ~CueInEither(cls.rules.EVALUATION)
    /\ ~CueInEither(cls.rules.ARTIFACT) /\ ~ObjLooksLikeUrl

CueSets ==
  {cls.rules.PROBLEM, cls.rules.DATA, cls.rules.EVALUATION, cls.rules.METHOD,
   cls.rules.ARTIFACT, cls.rules.TOOL}

\* the statement of the call with the object's label as its predicate label too
CueMovedToPredicate ==
  [cls.st EXCEPT !.predicate = [id |-> "P32", label |-> ArgObjLabel]]

\* C22: every cue set is tested on the predicate label and on the object
\* label: a statement whose predicate label matches no cue is classified as
\* the same statement with the object's label as predicate label, so one whose
\* only cue is an artifact cue in the object label is classified artifact.
C22_CuesOnBothLabels ==
  (/\ Called
   /\ "predicate" \in DOMAIN cls.st
   /\ \A cue \in CueSets : ~Search(cue, Lower(PredLabel(cls.st.predicate))))
    => cls.tag = classify_statement(CueMovedToPredicate, cls.rules,
                                    cls.contribution_label)

\* ------------------------------------------------------- concurrent pipelines

BothReturned ==
  /\ pc = "workers"
  /\ \A w \in Workers : crawl[w].at = "returned"

\* the bundles of the two contributions run one after the other on a fresh
\* client over the same graph, worker `first` before the other
SequentialBundles(first) ==
  LET second == CHOOSE w \in Workers : w # first
  IN Bind(extract_contribution_bundle(NewClient, graph, contrib[first].id,
                                      contrib[first].label, ExtractionRules),
          LAMBDA a :
     Bind(extract_contribution_bundle(a.client, graph, contrib[second].id,
                                      contrib[second].label, ExtractionRules),
          LAMBDA b : (first :> a.bundle) @@ (second :> b.bundle)))

\* a step of one worker leaves the other worker's queue and seen-set alone
CrawlLocalsPrivate ==
  (pc = "workers" /\ pc' = "workers") =>
    \E w \in Workers : \A v \in Workers \ {w} :
      /\ crawl'[v].queue = crawl[v].queue
      /\ crawl'[v].seen = crawl[v].seen

\* C20: two contribution pipelines run concurrently on one shared client over a
\* static graph return, for every interleaving of their steps, the same two
\* bundles as running them one after the other (in either order), and a step
\* of one crawl never changes the queue or the seen-set of the other.
C20_ConcurrentSameAsSequential ==
  /\ [](BothReturned =>
          \A first \in Workers : \A w \in Workers :
            contrib[w] = SequentialBundles(first)[w])
  /\ [][CrawlLocalsPrivate]_vars

\* both workers have returned, both missed the cache on the same page and
\* requested it, and a compact list is non-empty
C20_Witness ==
  /\ BothReturned
  /\ \E i, j \in DOMAIN client.requests :
       i # j /\ client.requests[i] = client.requests[j]
  /\ \E w \in Workers : contrib[w].compact.methods # <<>>
  /\ crawl[1].root_id # crawl[2].root_id

====
